---- MODULE Spec2Model ----
(***************************************************************************)
(* A model of chunkr's chunk assembler (src/src/chunk.rs) and of its       *)
(* fan-out ingestion pipeline (src/src/insert.rs).                         *)
(*                                                                         *)
(* Text is a sequence of characters.  A character is one of                *)
(*   "a"  a one-byte letter (any other one-letter string is one too),      *)
(*   "E"  a two-byte letter (a code point such as U+00E9),                 *)
(*   "F"  a three-byte compatibility character (U+FB01, the fi ligature),  *)
(*   " "  a space, "\n" a line feed,                                       *)
(*   "."  a sentence terminator, "#" a number sign.                        *)
(* str.len() of the source is ByteLen, str.chars().count() is Len.         *)
(***************************************************************************)
EXTENDS Integers, Sequences, FiniteSets, TLC

VARIABLES
    \* ---- chunk.rs: build_chunks ----
    cfg,            \* ChunkConfig
    paragraphs,     \* the argument of build_chunks
    pidx,           \* index of the next paragraph of the outer loop
    queue,          \* bounded parts of the paragraph in hand, not yet consumed
    current,        \* the chunk under construction
    last_overlap,   \* overlap tail of the last emitted chunk
    chunks,         \* the chunks emitted so far
    cpc,            \* "loop" while build_chunks runs, "done" once it has returned
    fed,            \* history: the pieces consumed by the inner loop, in order
    cur_seed,       \* history: the piece that started `current`
    seeds,          \* history: for each emitted chunk, the piece that started it
    \* ---- chunk.rs: chunk_file ----
    raw,            \* the content of the .txt file
    records,        \* the ChunkRecords written to the .jsonl file
    \* ---- chunk.rs: run ----
    walk,           \* the walk of run over the .txt files of extract_root
    \* ---- insert.rs: run, ingest_file, process_batch ----
    icfg,           \* InsertConfig (the options the pipeline reads)
    files,          \* per .jsonl file under chunk_root: the ChunkRecords written to it
    jsonl,          \* per .jsonl file under chunk_root: its content
    rpc,            \* position of run: "start", "ensure", "spawn", "join", "commit",
                    \* "ok", "err"; "exit_ok", "exit_err" once main has returned
    spawned,        \* number of per-file tasks spawned by run
    joined,         \* number of task handles run has awaited
    total_chunks,   \* run's total_chunks
    file_permits,   \* available permits of file_semaphore
    embed_permits,  \* available permits of embed_semaphore
    ftask,          \* per file: the state of its spawned task
    subs,           \* per file: the embedding tasks spawned by its batch in hand
    cache,          \* the shared EmbeddingCache
    cache_lock,     \* the Mutex around the cache: None, or Some(holder)
    embed_count,    \* history: embedding requests sent, per record text
    completed,      \* history: per file, batches whose upsert and ingest both returned
    commits,        \* history: commit requests sent to the full-text store
    stored,         \* history: per file, the requests each store has accepted
    chist           \* history of the EmbeddingCache: the last call and the
                    \* insertion time of every entry

chunk_vars == <<cfg, paragraphs, pidx, queue, current, last_overlap, chunks,
                cpc, fed, cur_seed, seeds, raw, records, walk>>

insert_vars == <<icfg, files, jsonl, rpc, spawned, joined, total_chunks, file_permits,
                 embed_permits, ftask, subs, cache, cache_lock, embed_count, completed,
                 commits, stored, chist>>

vars == <<chunk_vars, insert_vars>>

----------------------------------------------------------------------------
(* Bounds *)

MaxChars == 4        \* size of an enumerated text: bytes of a paragraph list, characters of a file
MaxCap == 3          \* largest enumerated value of a size option
MaxOverlap == 1      \* largest enumerated chunk_overlap_chars

----------------------------------------------------------------------------
(* Strings *)

Chars == {"a", "E", " ", "."}

Width(c) == CASE c = "E" -> 2 [] c = "F" -> 3 [] OTHER -> 1

IsWhitespace(c) == c \in {" ", "\n"}

RECURSIVE ByteLen(_)
ByteLen(s) == IF s = <<>> THEN 0 ELSE Width(Head(s)) + ByteLen(Tail(s))

RECURSIVE TrimStart(_)
TrimStart(s) ==
    IF s = <<>> THEN <<>>
    ELSE IF IsWhitespace(Head(s)) THEN TrimStart(Tail(s)) ELSE s

RECURSIVE TrimEnd(_)
TrimEnd(s) ==
    IF s = <<>> THEN <<>>
    ELSE IF IsWhitespace(s[Len(s)]) THEN TrimEnd(SubSeq(s, 1, Len(s) - 1)) ELSE s

Trim(s) == TrimEnd(TrimStart(s))

RECURSIVE SplitWs(_, _, _)
SplitWs(s, word, out) ==
    IF s = <<>> THEN (IF word = <<>> THEN out ELSE Append(out, word))
    ELSE IF IsWhitespace(Head(s))
         THEN SplitWs(Tail(s), <<>>, IF word = <<>> THEN out ELSE Append(out, word))
         ELSE SplitWs(Tail(s), Append(word, Head(s)), out)

split_whitespace(s) == SplitWs(s, <<>>, <<>>)

IsPrefix(p, s) == Len(p) <= Len(s) /\ SubSeq(s, 1, Len(p)) = p

IsSubstring(p, s) ==
    \E i \in 0..(Len(s) - Len(p)) : SubSeq(s, i + 1, i + Len(p)) = p

----------------------------------------------------------------------------
(* chunk.rs: the splitters *)

\* The char_indices loop of split_by_max_bytes over one word longer than
\* max_len.  i is the character visited, start the character at which the
\* open slice begins; idx - start of the source is the byte length of the
\* characters start..i-1.
RECURSIVE slice_word(_, _, _, _, _)
slice_word(word, max_len, i, start, out) ==
    IF i > Len(word)
    THEN (IF start <= Len(word)
          THEN Append(out, SubSeq(word, start, Len(word)))
          ELSE out)
    ELSE IF ByteLen(SubSeq(word, start, i - 1)) >= max_len
         THEN slice_word(word, max_len, i + 1, i,
                         Append(out, SubSeq(word, start, i - 1)))
         ELSE slice_word(word, max_len, i + 1, start, out)

\* The word loop of split_by_max_bytes; st = [out, current].
RECURSIVE pack_words(_, _, _)
pack_words(words, max_len, st) ==
    IF words = <<>> THEN st
    ELSE LET word == Head(words)
             nst ==
               IF ByteLen(word) > max_len
               THEN [out |-> slice_word(word, max_len, 1, 1,
                                IF st.current # <<>>
                                THEN Append(st.out, Trim(st.current))
                                ELSE st.out),
                     current |-> <<>>]
               ELSE IF st.current = <<>>
               THEN [out |-> st.out, current |-> word]
               ELSE IF ByteLen(st.current) + 1 + ByteLen(word) <= max_len
               THEN [out |-> st.out, current |-> st.current \o <<" ">> \o word]
               ELSE [out |-> Append(st.out, st.current), current |-> word]
         IN pack_words(Tail(words), max_len, nst)

split_by_max_bytes(text, max_len) ==
    IF max_len = 0 THEN <<>>
    ELSE IF ByteLen(text) <= max_len THEN <<text>>
    ELSE LET st == pack_words(split_whitespace(text), max_len,
                              [out |-> <<>>, current |-> <<>>])
             out == IF st.current # <<>> THEN Append(st.out, st.current) ELSE st.out
         IN IF out = <<>> THEN <<text>> ELSE out

IsSentenceEnd(c) == c = "."

\* The sentence scan of split_large_paragraph; a terminator closes the
\* sentence when the next character exists and is whitespace.
RECURSIVE scan_sentences(_, _, _, _)
scan_sentences(p, i, buf, sentences) ==
    IF i > Len(p)
    THEN (IF Trim(buf) # <<>> THEN Append(sentences, Trim(buf)) ELSE sentences)
    ELSE LET nbuf == Append(buf, p[i])
         IN IF IsSentenceEnd(p[i]) /\ i < Len(p) /\ IsWhitespace(p[i + 1])
            THEN scan_sentences(p, i + 1, <<>>, Append(sentences, Trim(nbuf)))
            ELSE scan_sentences(p, i + 1, nbuf, sentences)

\* The recombination loop of split_large_paragraph over the sub-pieces of
\* all sentences; st = [parts, current].
RECURSIVE combine_subs(_, _, _)
combine_subs(pieces, max_len, st) ==
    IF pieces = <<>> THEN st
    ELSE LET sub == Head(pieces)
             closed == ByteLen(st.current) + ByteLen(sub) + 1 > max_len
                       /\ st.current # <<>>
             parts1 == IF closed THEN Append(st.parts, Trim(st.current)) ELSE st.parts
             cur1 == IF closed THEN <<>> ELSE st.current
             cur2 == IF cur1 # <<>> THEN cur1 \o <<" ">> \o sub ELSE sub
         IN combine_subs(Tail(pieces), max_len, [parts |-> parts1, current |-> cur2])

RECURSIVE sentence_subs(_, _)
sentence_subs(sentences, max_len) ==
    IF sentences = <<>> THEN <<>>
    ELSE (IF ByteLen(Head(sentences)) > max_len
          THEN split_by_max_bytes(Head(sentences), max_len)
          ELSE <<Head(sentences)>>) \o sentence_subs(Tail(sentences), max_len)

split_large_paragraph(paragraph, max_len) ==
    LET sentences == scan_sentences(paragraph, 1, <<>>, <<>>)
        st == combine_subs(sentence_subs(sentences, max_len), max_len,
                           [parts |-> <<>>, current |-> <<>>])
        parts == IF Trim(st.current) # <<>>
                 THEN Append(st.parts, Trim(st.current)) ELSE st.parts
    IN IF parts = <<>> THEN <<paragraph>> ELSE parts

overlap_tail(text, overlap) ==
    IF overlap = 0 THEN <<>>
    ELSE IF Len(text) <= overlap THEN text
    ELSE SubSeq(text, Len(text) - overlap + 1, Len(text))

----------------------------------------------------------------------------
(* chunk.rs: build_chunks *)

RECURSIVE bound_parts(_, _)
bound_parts(parts, c) ==
    IF parts = <<>> THEN <<>>
    ELSE (IF ByteLen(Head(parts)) > c.max_chunk_chars
          THEN split_by_max_bytes(Head(parts), c.max_chunk_chars)
          ELSE <<Head(parts)>>) \o bound_parts(Tail(parts), c)

\* The pieces the inner loop of build_chunks consumes for one paragraph.
paragraph_pieces(para, c) ==
    bound_parts(IF ByteLen(para) > c.max_paragraph_chars
                THEN split_large_paragraph(para, c.max_paragraph_chars)
                ELSE <<para>>, c)

\* `current.len() + part.len() + 1 > cfg.max_chunk_chars && !current.is_empty()`
overflows(cur, part, c) ==
    ByteLen(cur) + ByteLen(part) + 1 > c.max_chunk_chars /\ cur # <<>>

\* The value of `current` after the if/else of the inner loop body.
next_current(cur, overlap, part, c) ==
    IF overflows(cur, part, c)
    THEN IF overlap # <<>>
         THEN LET overlap_chunk == overlap \o <<" ">> \o part
              IN IF ByteLen(overlap_chunk) > c.max_chunk_chars
                 THEN part ELSE overlap_chunk
         ELSE part
    ELSE IF cur # <<>> THEN cur \o <<" ">> \o part ELSE part

\* An emission test that lets a chunk go one byte short of the target.
reaches_target_mut(cur, c) == ByteLen(cur) + 1 >= c.target_chunk_chars

\* `current.len() >= cfg.target_chunk_chars`
reaches_target(cur, c) == ByteLen(cur) >= c.target_chunk_chars

\* for para in paragraphs: compute the bounded parts of the paragraph.
TakeParagraph ==
    /\ cpc = "loop"
    /\ queue = <<>>
    /\ pidx <= Len(paragraphs)
    /\ queue' = paragraph_pieces(paragraphs[pidx], cfg)
    /\ pidx' = pidx + 1
    /\ UNCHANGED <<insert_vars, walk, raw, records, cfg, paragraphs, current, last_overlap, chunks, cpc, fed,
                   cur_seed, seeds>>

\* One iteration of `for part in bounded_parts`.
AppendPiece ==
    /\ cpc = "loop"
    /\ queue # <<>>
    /\ LET part == Head(queue)
           cur1 == next_current(current, last_overlap, part, cfg)
           seed1 == IF overflows(current, part, cfg) \/ current = <<>>
                    THEN part ELSE cur_seed
       IN /\ queue' = Tail(queue)
          /\ fed' = Append(fed, part)
          /\ IF reaches_target(cur1, cfg)
             THEN /\ last_overlap' = overlap_tail(cur1, cfg.chunk_overlap_chars)
                  /\ chunks' = Append(chunks, cur1)
                  /\ seeds' = Append(seeds, seed1)
                  /\ current' = <<>>
                  /\ cur_seed' = <<>>
             ELSE /\ current' = cur1
                  /\ cur_seed' = seed1
                  /\ UNCHANGED <<last_overlap, chunks, seeds>>
    /\ UNCHANGED <<insert_vars, walk, raw, records, cfg, paragraphs, pidx, cpc>>

\* After the loops: `if !current.is_empty() { chunks.push(current) }`.
FinishChunks ==
    /\ cpc = "loop"
    /\ queue = <<>>
    /\ pidx > Len(paragraphs)
    /\ cpc' = "done"
    /\ IF current # <<>>
       THEN /\ chunks' = Append(chunks, current)
            /\ seeds' = Append(seeds, cur_seed)
       ELSE UNCHANGED <<chunks, seeds>>
    /\ UNCHANGED <<insert_vars, walk, raw, records, cfg, paragraphs, pidx, queue, current, last_overlap, fed,
                   cur_seed>>

----------------------------------------------------------------------------
(* chunk.rs: normalize_text, split_paragraphs, push_paragraph *)

\* `out.nfkc()`: the compatibility character decomposes, every other
\* character of the model is in normal form.
RECURSIVE nfkc(_)
nfkc(s) ==
    IF s = <<>> THEN <<>>
    ELSE (IF Head(s) = "F" THEN <<"f", "i">> ELSE <<Head(s)>>) \o nfkc(Tail(s))

\* The loop of normalize_text under collapse_whitespace (lines 118-131).
RECURSIVE collapse(_, _, _)
collapse(s, last_space, collapsed) ==
    IF s = <<>> THEN collapsed
    ELSE IF IsWhitespace(Head(s))
         THEN collapse(Tail(s), TRUE,
                       IF last_space THEN collapsed ELSE Append(collapsed, " "))
         ELSE collapse(Tail(s), FALSE, Append(collapsed, Head(s)))

\* A normalize_text that leaves the whitespace as it is.
normalize_text_mut(input, c) == IF c.normalize_unicode THEN nfkc(input) ELSE input

normalize_text(input, c) ==
    LET out == IF c.normalize_unicode THEN nfkc(input) ELSE input
    IN IF c.collapse_whitespace THEN collapse(out, FALSE, <<>>) ELSE out

\* str::lines: the text cut at line feeds; a last line that is empty is
\* not yielded.
RECURSIVE split_lines(_, _, _)
split_lines(s, line, out) ==
    IF s = <<>> THEN (IF line = <<>> THEN out ELSE Append(out, line))
    ELSE IF Head(s) = "\n"
         THEN split_lines(Tail(s), <<>>, Append(out, line))
         ELSE split_lines(Tail(s), Append(line, Head(s)), out)

lines(s) == split_lines(s, <<>>, <<>>)

\* str::to_ascii_lowercase on the capitals the texts of the model use.
to_ascii_lowercase(s) ==
    [i \in 1..Len(s) |->
        CASE s[i] = "C" -> "c" [] s[i] = "H" -> "h" [] s[i] = "P" -> "p"
          [] s[i] = "R" -> "r" [] s[i] = "T" -> "t" [] OTHER -> s[i]]

\* `trimmed.replace('\n', " ")`
replace_newlines(s) == [i \in 1..Len(s) |-> IF s[i] = "\n" THEN " " ELSE s[i]]

\* The header test of push_paragraph (lines 157-166).
is_header(trimmed) ==
    \/ Head(trimmed) = "#"
    \/ to_ascii_lowercase(trimmed) = <<"t", "a", "b", "l", "e", " ", "o", "f", " ", "c", "o", "n", "t", "e", "n", "t", "s">>
    \/ to_ascii_lowercase(trimmed) = <<"c", "o", "n", "t", "e", "n", "t", "s">>

\* A push_paragraph that emits every paragraph on its own.
push_paragraph_mut(out, cur, c) ==
    LET trimmed == Trim(cur)
    IN IF trimmed = <<>> THEN out
       ELSE IF c.strip_headers /\ is_header(trimmed) THEN out
       ELSE Append(out, replace_newlines(trimmed))

\* push_paragraph: the value of `out` afterwards (`current` is cleared on
\* every path).
push_paragraph(out, cur, c) ==
    LET trimmed == Trim(cur)
        cleaned == replace_newlines(trimmed)
    IN IF trimmed = <<>> THEN out
       ELSE IF c.strip_headers /\ is_header(trimmed) THEN out
       ELSE IF ByteLen(cleaned) < c.min_paragraph_chars /\ out # <<>>
            THEN [out EXCEPT ![Len(out)] = @ \o <<" ">> \o cleaned]
            ELSE Append(out, cleaned)

\* The line loop of split_paragraphs; st = [paragraphs, current].
RECURSIVE paragraph_scan(_, _, _)
paragraph_scan(ls, st, c) ==
    IF ls = <<>> THEN push_paragraph(st.paragraphs, st.current, c)
    ELSE IF Trim(Head(ls)) = <<>>
         THEN paragraph_scan(Tail(ls),
                  [paragraphs |-> push_paragraph(st.paragraphs, st.current, c),
                   current |-> <<>>], c)
         ELSE paragraph_scan(Tail(ls),
                  [paragraphs |-> st.paragraphs,
                   current |-> st.current \o Trim(Head(ls)) \o <<"\n">>], c)

split_paragraphs(s, c) ==
    paragraph_scan(lines(s), [paragraphs |-> <<>>, current |-> <<>>], c)

----------------------------------------------------------------------------
(* chunk.rs: chunk_file *)

\* should_include_metadata
should_include_metadata(key, c) ==
    CASE key = "calibre_id" -> c.metadata.include_calibre_id
      [] key = "title"      -> c.metadata.include_title
      [] key = "authors"    -> c.metadata.include_authors
      [] key = "published"  -> c.metadata.include_published
      [] key = "language"   -> c.metadata.include_language
      [] OTHER              -> TRUE

\* Map::insert of every pair of `extra` into `meta`: a key that is present
\* takes the new value.
insert_all(meta, extra) ==
    [k \in DOMAIN meta \cup DOMAIN extra |->
        IF k \in DOMAIN extra THEN extra[k] ELSE meta[k]]

\* The keys of the map f restricted to the set keys.
restrict(f, keys) == [k \in DOMAIN f \cap keys |-> f[k]]

\* The metadata object of the record of chunk idx (lines 68-95).
record_meta(idx, cursor, chunk_text, file_meta, c) ==
    LET source == IF c.metadata.include_source_path
                  THEN [source_path |-> "path", source_rel |-> "rel"]
                  ELSE <<>>
        offsets == [chunk_index |-> idx, char_start |-> cursor,
                    char_end |-> cursor + ByteLen(chunk_text)]
        merged == IF file_meta.is_object
                  THEN restrict(file_meta.fields,
                                {k \in DOMAIN file_meta.fields :
                                    should_include_metadata(k, c)})
                  ELSE <<>>
    IN insert_all(insert_all(source, offsets), merged)

\* The loop over the chunks (lines 67-106).  The id is a fresh UUID, distinct
\* for every record: the position stands for it.
RECURSIVE write_records(_, _, _, _, _)
write_records(cs, idx, cursor, file_meta, c) ==
    IF cs = <<>> THEN <<>>
    ELSE << [id |-> idx + 1, text |-> Head(cs),
             metadata |-> record_meta(idx, cursor, Head(cs), file_meta, c)] >>
         \o write_records(Tail(cs), idx + 1, cursor + ByteLen(Head(cs)), file_meta, c)

\* What load_metadata returns: {} when there is no sidecar file, else the
\* value parsed from it, an object or not.
Sidecars ==
    {[is_object |-> TRUE, fields |-> <<>>],
     [is_object |-> TRUE, fields |-> [title |-> "t", language |-> "en"]],
     [is_object |-> TRUE, fields |-> [chunk_index |-> 7]],
     [is_object |-> TRUE, fields |-> [char_end |-> 0, note |-> "n"]],
     [is_object |-> FALSE, fields |-> <<>>]}

\* chunk_file up to the call of build_chunks (lines 50-57).
ReadFile ==
    /\ cpc = "file"
    /\ LET cleaned == normalize_text(raw, cfg)
       IN IF Trim(cleaned) = <<>>
          THEN /\ cpc' = "empty"
               /\ UNCHANGED paragraphs
          ELSE /\ cpc' = "loop"
               /\ paragraphs' = split_paragraphs(cleaned, cfg)
    /\ UNCHANGED <<insert_vars, walk, raw, records, cfg, pidx, queue, current, last_overlap,
                   chunks, fed, cur_seed, seeds>>

\* chunk_file after build_chunks has returned (lines 58-109): nothing is
\* written for an empty chunk list; a sidecar that cannot be parsed is an
\* error; else one record per chunk is written.
WriteRecords ==
    /\ cpc = "done"
    /\ IF chunks = <<>>
       THEN /\ cpc' = "empty"
            /\ UNCHANGED records
       ELSE \/ /\ cpc' = "err"
               /\ UNCHANGED records
            \/ \E file_meta \in Sidecars :
                  /\ cpc' = "written"
                  /\ records' = write_records(chunks, 0, 0, file_meta, cfg)
    /\ UNCHANGED <<insert_vars, walk, raw, cfg, paragraphs, pidx, queue, current, last_overlap,
                   chunks, fed, cur_seed, seeds>>

----------------------------------------------------------------------------
(* chunk.rs: run *)

\* run is not in progress.
NoWalk == [entries |-> <<>>, idx |-> 0, done |-> <<>>, rc |-> "none"]

\* The next .txt entry of the walk (lines 24-34) and chunk_file up to
\* read_to_string (lines 42-50): a source file that cannot be read is an
\* error of chunk_file.
NextFile ==
    /\ walk.rc = "run"
    /\ cpc = "next"
    /\ walk.idx < Len(walk.entries)
    /\ LET entry == walk.entries[walk.idx + 1]
       IN /\ walk' = [walk EXCEPT !.idx = walk.idx + 1]
          /\ raw' = IF entry.readable THEN entry.raw ELSE <<>>
          /\ cpc' = IF entry.readable THEN "file" ELSE "err"
    /\ paragraphs' = <<>>
    /\ pidx' = 1
    /\ queue' = <<>>
    /\ current' = <<>>
    /\ last_overlap' = <<>>
    /\ chunks' = <<>>
    /\ fed' = <<>>
    /\ cur_seed' = <<>>
    /\ seeds' = <<>>
    /\ records' = <<>>
    /\ UNCHANGED <<insert_vars, cfg>>

\* chunk_file has returned Ok(n): `total_chunks += chunks` (lines 34-35).
FileChunked ==
    /\ walk.rc = "run"
    /\ cpc \in {"empty", "written"}
    /\ walk' = [walk EXCEPT !.done[walk.idx] = [st |-> "chunked", records |-> records]]
    /\ cpc' = "next"
    /\ UNCHANGED <<insert_vars, raw, records, cfg, paragraphs, pidx, queue, current,
                   last_overlap, chunks, fed, cur_seed, seeds>>

\* chunk_file has returned Err: `chunk_file(path, config)?` returns it from
\* run (line 34).
RunFailed ==
    /\ walk.rc = "run"
    /\ cpc = "err"
    /\ walk' = [walk EXCEPT !.done[walk.idx] = [st |-> "failed", records |-> <<>>],
                            !.rc = "err"]
    /\ UNCHANGED <<insert_vars, raw, records, cfg, paragraphs, pidx, queue, current,
                   last_overlap, chunks, cpc, fed, cur_seed, seeds>>

\* The walk is exhausted: run returns Ok(()) (lines 37-38).
RunDone ==
    /\ walk.rc = "run"
    /\ cpc = "next"
    /\ walk.idx = Len(walk.entries)
    /\ walk' = [walk EXCEPT !.rc = "ok"]
    /\ UNCHANGED <<insert_vars, raw, records, cfg, paragraphs, pidx, queue, current,
                   last_overlap, chunks, cpc, fed, cur_seed, seeds>>

----------------------------------------------------------------------------
(* Inputs of build_chunks *)

\* A paragraph pushed by push_paragraph is trimmed and is not empty; the
\* paragraphs of n bytes (the unit of every size option).
TrimmedStrs(n) ==
    {s \in UNION {[1..k -> Chars] : k \in 1..n} :
        ByteLen(s) = n /\ ~IsWhitespace(s[1]) /\ ~IsWhitespace(s[Len(s)])}

RECURSIVE ParagraphLists(_)
ParagraphLists(budget) ==
    {<<>>} \cup
    UNION {{<<p>> \o rest : p \in TrimmedStrs(n), rest \in ParagraphLists(budget - n)}
           : n \in 1..budget}

SmallConfigs ==
    [max_paragraph_chars : 1..MaxCap,
     target_chunk_chars  : 0..MaxCap,
     max_chunk_chars     : 0..MaxCap,
     chunk_overlap_chars : 0..MaxOverlap]

\* Scenario 3 of the specification: target 50, max 60, overlap 10 and two
\* paragraphs of 45 and 40 characters; the other options as in
\* tests/pipeline.rs.
ScenarioConfig ==
    [max_paragraph_chars |-> 1200,
     target_chunk_chars  |-> 50,
     max_chunk_chars     |-> 60,
     chunk_overlap_chars |-> 10]

\* n characters in words of w - 1 letters (one word when w > n).
Words(n, w, c) == [i \in 1..n |-> IF i % w = 0 /\ i < n THEN " " ELSE c]

ScenarioParagraphs ==
    {<<Words(45, w1, "a"), Words(40, w2, c2)>> :
        w1 \in {6, 100}, w2 \in {7, 100}, c2 \in {"a", "."}}

IsScenario ==
    /\ cfg = ScenarioConfig
    /\ Len(paragraphs) = 2
    /\ Len(paragraphs[1]) = 45
    /\ Len(paragraphs[2]) = 40

----------------------------------------------------------------------------
(* Inputs of chunk_file *)

FileChars == {"a", " ", "\n", "#", "F"}

SmallTexts == UNION {[1..n -> FileChars] : n \in 0..MaxChars}

AllMetadata ==
    [include_source_path |-> TRUE, include_calibre_id |-> TRUE,
     include_title |-> TRUE, include_authors |-> TRUE,
     include_published |-> TRUE, include_language |-> TRUE]

SmallFileConfigs ==
    [normalize_unicode   : BOOLEAN,
     collapse_whitespace : BOOLEAN,
     strip_headers       : BOOLEAN,
     min_paragraph_chars : {0, 2},
     max_paragraph_chars : {MaxCap},
     target_chunk_chars  : {1, MaxCap},
     max_chunk_chars     : {MaxCap},
     chunk_overlap_chars : {0},
     metadata            : {AllMetadata}]

\* The [chunk] section of the configuration written by tests/pipeline.rs.
TestConfig ==
    [normalize_unicode   |-> TRUE,
     collapse_whitespace |-> TRUE,
     strip_headers       |-> TRUE,
     min_paragraph_chars |-> 80,
     max_paragraph_chars |-> 1200,
     target_chunk_chars  |-> 800,
     max_chunk_chars     |-> 900,
     chunk_overlap_chars |-> 100,
     metadata            |-> AllMetadata]

\* The test configuration with either value of collapse_whitespace, of
\* strip_headers and of include_title.
TestConfigs ==
    {[TestConfig EXCEPT !.collapse_whitespace = cw, !.strip_headers = sh,
                        !.metadata.include_title = it] :
        cw \in BOOLEAN, sh \in BOOLEAN, it \in BOOLEAN}

\* Scenarios 1 and 5 of the specification, and a contents page.
HelloWorld == <<"H", "e", "l", "l", "o", " ", "w", "o", "r", "l", "d", ".">>

PrefaceText ==
    <<"#", " ", "P", "r", "e", "f", "a", "c", "e", "\n", "\n", "R", "e", "a", "l", " ", "c", "o", "n", "t", "e", "n", "t">>
    \o <<" ", "t", "e", "x", "t", ".">>

RealContent == <<"R", "e", "a", "l", " ", "c", "o", "n", "t", "e", "n", "t", " ", "t", "e", "x", "t", ".">>

ContentsText == <<"C", "o", "n", "t", "e", "n", "t", "s", "\n", "\n", "H", "e", "l", "l", "o", " ", "w", "o", "r", "l", "d", ".">>

ScenarioTexts == {HelloWorld, PrefaceText, ContentsText}

----------------------------------------------------------------------------
(* Inputs of chunk::run *)

MaxFiles == 3        \* largest number of .txt files under extract_root

\* A .txt file of the walk: unreadable, or readable with one of these texts.
WalkTexts == {<<"a">>, <<"a", "\n", "\n", "a", " ", "a">>, <<" ">>}

WalkEntries ==
    {[readable |-> FALSE, raw |-> <<>>]} \cup {[readable |-> TRUE, raw |-> t] : t \in WalkTexts}

WalkLists == UNION {[1..n -> WalkEntries] : n \in 0..MaxFiles}

WalkConfig ==
    [normalize_unicode   |-> TRUE,
     collapse_whitespace |-> FALSE,
     strip_headers       |-> TRUE,
     min_paragraph_chars |-> 0,
     max_paragraph_chars |-> MaxCap,
     target_chunk_chars  |-> 1,
     max_chunk_chars     |-> MaxCap,
     chunk_overlap_chars |-> 0,
     metadata            |-> AllMetadata]

----------------------------------------------------------------------------
(* insert.rs: configuration and inputs *)

MaxLimit == 2        \* largest enumerated value of a concurrency option
MaxDim == 2          \* largest length of an embedding array the service returns

Max(a, b) == IF a > b THEN a ELSE b

Min(a, b) == IF a < b THEN a ELSE b

\* Option<T>: None is the empty sequence, Some(v) is <<v>>.
None == <<>>

Some(v) == <<v>>

\* A limit that admits one task more than the option allows.
file_limit_mut(c) == c.max_parallel_files + 1

\* Semaphore::new(config.insert.max_parallel_files.max(1))
file_limit(c) == Max(c.max_parallel_files, 1)

\* A limit that ignores global_max_concurrency.
embed_limit_mut(c) == Max(c.max_concurrency, 1)

\* global_embed_limit.max(1)
embed_limit(c) ==
    Max(IF c.global_max_concurrency > 0
        THEN c.global_max_concurrency
        ELSE c.max_concurrency, 1)

\* A task that sends every text as it is.
truncate_mut(text, max_input_chars) == text

\* `if max_input_chars > 0 && text.len() > max_input_chars
\*      { text = text.chars().take(max_input_chars).collect() }`
truncate(text, max_input_chars) ==
    IF max_input_chars > 0 /\ ByteLen(text) > max_input_chars
    THEN SubSeq(text, 1, Min(max_input_chars, Len(text)))
    ELSE text

\* hash_text: a 64-bit fingerprint of the text, taken to be free of
\* collisions on the texts of the model (a base-5 reading of the characters,
\* far below 2^64 for these texts).
CharCode(c) == CASE c = "a" -> 1 [] c = "E" -> 2 [] c = " " -> 3 [] OTHER -> 4

RECURSIVE HashFrom(_, _)
HashFrom(h, text) ==
    IF text = <<>> THEN h
    ELSE HashFrom(h * 5 + CharCode(Head(text)), Tail(text))

hash_text(text) == HashFrom(0, text)

\* EmbeddingCache::new
new_cache(max_entries) ==
    [max_entries |-> max_entries, order |-> <<>>, values |-> <<>>]

\* EmbeddingCache::get
cache_get(c, text) ==
    IF hash_text(text) \in DOMAIN c.values
    THEN Some(c.values[hash_text(text)])
    ELSE None

\* An insert with no eviction loop.
cache_evict_mut(c) == c

\* The eviction loop of EmbeddingCache::insert.
RECURSIVE cache_evict(_)
cache_evict(c) ==
    IF Cardinality(DOMAIN c.values) > c.max_entries /\ c.order # <<>>
    THEN cache_evict([c EXCEPT
            !.order = Tail(c.order),
            !.values = [k \in DOMAIN c.values \ {Head(c.order)} |-> c.values[k]]])
    ELSE c

\* An insert that moves a key already present to the back of the queue.
cache_insert_mut(c, text, vec) ==
    LET key == hash_text(text)
    IN cache_evict([c EXCEPT
           !.order = Append(SelectSeq(c.order, LAMBDA k : k # key), key),
           !.values = [k \in DOMAIN c.values \cup {key} |->
                          IF k = key THEN vec ELSE c.values[k]]])

\* EmbeddingCache::insert
cache_insert(c, text, vec) ==
    LET key == hash_text(text)
    IN cache_evict([c EXCEPT
           !.order = IF key \in DOMAIN c.values THEN c.order ELSE Append(c.order, key),
           !.values = [k \in DOMAIN c.values \cup {key} |->
                          IF k = key THEN vec ELSE c.values[k]]])

\* `cache` of run: Some(..) when cache_max_entries > 0.
CacheEnabled == icfg.cache_max_entries > 0

\* misses.chunks(request_batch_size): consecutive groups of n items.
RECURSIVE slice_chunks(_, _)
slice_chunks(items, n) ==
    IF items = <<>> THEN <<>>
    ELSE IF Len(items) <= n THEN <<items>>
    ELSE <<SubSeq(items, 1, n)>> \o slice_chunks(SubSeq(items, n + 1, Len(items)), n)

\* A line loop that hands the buffer over once it holds more than batch_size
\* records.
batch_len_mut(batch_size, remaining) == Min(Max(batch_size, 1) + 1, remaining)

\* The number of records ingest_file pushes before `buffer.len() >= batch_size`
\* holds or the lines run out.
batch_len(batch_size, remaining) == Min(Max(batch_size, 1), remaining)

\* The texts of the records.
Texts == {<<"a">>, <<"a", "E">>}

\* A chunk file written by the Chunk Writer: unique ids, metadata carrying
\* the chunk index.
Record(f, i, text) ==
    [id |-> <<f, i>>, text |-> text, metadata |-> [chunk_index |-> i - 1]]

\* Two chunk files, one of two records and one of one record; or one chunk
\* file of three records; or no chunk file.
Corpora ==
    {<< <<Record(1, 1, <<"a">>), Record(1, 2, t2)>>, <<Record(2, 1, t3)>> >> :
        t2 \in Texts, t3 \in {<<"a">>}}
    \cup {<< <<Record(1, 1, <<"a">>), Record(1, 2, <<"a", "E">>), Record(1, 3, <<"a", "E">>)>> >>}
    \cup {<<>>}

\* The decimal digit of a number below ten, and back.
Digit(n) ==
    CASE n = 0 -> "0" [] n = 1 -> "1" [] n = 2 -> "2" [] n = 3 -> "3" [] n = 4 -> "4"
      [] n = 5 -> "5" [] n = 6 -> "6" [] n = 7 -> "7" [] n = 8 -> "8" [] n = 9 -> "9"

DigitValue(c) == CHOOSE n \in 0..9 : Digit(n) = c

\* The JSON string escapes of serde_json for the characters of the model.
RECURSIVE escape(_)
escape(text) ==
    IF text = <<>> THEN <<>>
    ELSE (CASE Head(text) = "\n" -> <<"\\", "n">>
            [] Head(text) = "\"" -> <<"\\", "\"">>
            [] Head(text) = "\\" -> <<"\\", "\\">>
            [] OTHER -> <<Head(text)>>) \o escape(Tail(text))

RECURSIVE unescape(_)
unescape(chars) ==
    IF chars = <<>> THEN <<>>
    ELSE IF Head(chars) = "\\" /\ Len(chars) >= 2
         THEN <<IF chars[2] = "n" THEN "\n" ELSE chars[2]>> \o unescape(Tail(Tail(chars)))
         ELSE <<Head(chars)>> \o unescape(Tail(chars))

\* serde_json::to_string(&record) of chunk_file (chunk.rs line 102): the id,
\* the text as a JSON string, the metadata.  The id is written as its two
\* digits and the metadata as the digit of its chunk index.
to_json_line(record) ==
    <<"{", Digit(record.id[1]), Digit(record.id[2]), ",", "\"">>
    \o escape(record.text)
    \o <<"\"", ",", Digit(record.metadata.chunk_index), "}">>

\* serde_json::from_str::<ChunkRecord>(line) of ingest_file (insert.rs line
\* 144) on a line written by to_json_line.
from_json_line(line) ==
    [id |-> <<DigitValue(line[2]), DigitValue(line[3])>>,
     text |-> unescape(SubSeq(line, 6, Len(line) - 4)),
     metadata |-> [chunk_index |-> DigitValue(line[Len(line) - 1])]]

\* The content of a file whose lines are ls, each ended by a line feed.
RECURSIVE join_lines(_)
join_lines(ls) ==
    IF ls = <<>> THEN <<>> ELSE Head(ls) \o <<"\n">> \o join_lines(Tail(ls))

\* The .jsonl file chunk_file writes for the records (chunk.rs lines 102-104).
write_jsonl(recs) == join_lines([i \in 1..Len(recs) |-> to_json_line(recs[i])])

\* The same file with an empty line before the first record and a line of
\* one space after every record.
RECURSIVE blank_after_each(_)
blank_after_each(ls) ==
    IF ls = <<>> THEN <<>> ELSE <<Head(ls), <<" ">>>> \o blank_after_each(Tail(ls))

write_jsonl_blanks(recs) ==
    join_lines(<< <<>> >> \o blank_after_each([i \in 1..Len(recs) |-> to_json_line(recs[i])]))

\* `for line in raw.lines() { if line.trim().is_empty() { continue; } ..`
\* (insert.rs lines 139-142): the lines ingest_file parses.
record_lines(content) == SelectSeq(lines(content), LAMBDA l : Trim(l) # <<>>)

\* The records ingest_file pushes into its buffer for lines from + 1 .. from + n
\* of these (insert.rs lines 143-145).
read_records(content, from, n) ==
    [i \in 1..n |-> from_json_line(record_lines(content)[from + i])]

\* The number of records of the longest file; a larger batch_size behaves as
\* this one.
RECURSIVE LongestFile(_)
LongestFile(fs) ==
    IF fs = <<>> THEN 0 ELSE Max(Len(Head(fs)), LongestFile(Tail(fs)))

\* The options run and process_batch read.  Either the embedding options or
\* the concurrency limits take their reference values: a behaviour under a
\* lower limit is also a behaviour under a higher one.  max_concurrency is
\* read only as the fallback of global_max_concurrency: it is varied with a
\* global limit of 0 and of 1.
ReferenceShape(c) ==
    /\ c.request_batch_size = 0
    /\ c.cache_max_entries = 2
    /\ c.max_input_chars = 0

ReferenceLimits(c) ==
    /\ c.max_parallel_files = MaxLimit
    /\ c.global_max_concurrency = MaxLimit
    /\ c.max_concurrency = 0

InsertConfigs ==
    {c \in [max_parallel_files     : {0, 1, MaxLimit},
            global_max_concurrency : {0, 1, MaxLimit},
            max_concurrency        : {0, MaxLimit},
            batch_size             : {1, 2, 3},
            request_batch_size     : {0, 2},
            cache_max_entries      : {0, 2},
            max_input_chars        : {0, 1, 2},
            commit_at_end          : BOOLEAN,
            create_collection      : BOOLEAN] :
        /\ ReferenceShape(c) \/ ReferenceLimits(c)
        /\ ~c.commit_at_end => ReferenceShape(c) /\ ReferenceLimits(c)
        /\ c.create_collection =>
              ReferenceShape(c) /\ ReferenceLimits(c) /\ c.commit_at_end /\ c.batch_size = 1
        /\ c.max_input_chars = 2 =>
              c.request_batch_size = 0 /\ c.cache_max_entries = 2 /\ c.batch_size = 2
        /\ c.max_concurrency = 0 \/ c.global_max_concurrency <= 1}

FileIds == 1..Len(files)

IdleTask ==
    [st |-> "idle", pos |-> 0, batch_idx |-> 0, batch |-> <<>>, vectors |-> <<>>,
     misses |-> <<>>, pi |-> 0, ji |-> 0, total |-> 0,
     qdrant |-> "none", quickwit |-> "none", points |-> <<>>]

----------------------------------------------------------------------------
(* insert.rs: run *)

\* The chunk files are listed: run returns Ok(()) when there is none, and
\* goes on to spawn the tasks otherwise (lines 34-56).
after_listing(fs) == IF fs = <<>> THEN "ok" ELSE "spawn"

\* run is entered: the request of ensure_qdrant_collection is sent when
\* create_collection is set (lines 30-32, 401-405).
RunStart ==
    /\ rpc = "start"
    /\ rpc' = IF icfg.create_collection THEN "ensure" ELSE after_listing(files)
    /\ UNCHANGED <<chunk_vars, jsonl, commits, cache_lock, chist, stored, icfg, files, spawned, joined,
                   total_chunks, file_permits, embed_permits, ftask, subs, cache,
                   embed_count, completed>>

\* The request of ensure_qdrant_collection ends: with a success status, with
\* another status, which is logged (lines 406-408), or with a transport
\* error, which `req.send().await?` returns and run returns in turn
\* (lines 405, 31).
EnsureReturn ==
    /\ rpc = "ensure"
    /\ \E r \in {"success", "rejected", "transport"} :
         rpc' = IF r = "transport" THEN "err" ELSE after_listing(files)
    /\ UNCHANGED <<chunk_vars, jsonl, commits, cache_lock, chist, stored, icfg, files, spawned, joined,
                   total_chunks, file_permits, embed_permits, ftask, subs, cache,
                   embed_count, completed>>

\* A run that sends the commit after the first handle it has joined.
after_join_mut(n_joined, n_files, c) ==
    IF c.commit_at_end THEN "commit" ELSE IF n_joined < n_files THEN "join" ELSE "ok"

\* After a handle has returned Ok: the next handle, or past the loop the
\* commit when commit_at_end is set, or Ok(()) (lines 104-120).
after_join(n_joined, n_files, c) ==
    IF n_joined < n_files THEN "join"
    ELSE IF c.commit_at_end THEN "commit" ELSE "ok"

\* `for path in files`: acquire a file permit, spawn the task of the file.
RunSpawn ==
    /\ rpc = "spawn"
    /\ spawned < Len(files)
    /\ file_permits > 0
    /\ file_permits' = file_permits - 1
    /\ spawned' = spawned + 1
    /\ ftask' = [ftask EXCEPT ![spawned + 1].st = "read"]
    /\ rpc' = IF spawned + 1 = Len(files) THEN "join" ELSE "spawn"
    /\ UNCHANGED <<chunk_vars, jsonl, commits, cache_lock, chist, stored, icfg, files, joined, total_chunks, embed_permits, subs, cache,
                   embed_count, completed>>

\* `for task in tasks { let (count, path) = task.await??; ... }`: the next
\* handle in spawn order has ended.  An Err leaves run at once; after the
\* last handle run sends the commit when commit_at_end is set, and returns
\* Ok(()) otherwise (lines 103-120).
RunJoin ==
    /\ rpc = "join"
    /\ joined < Len(files)
    /\ ftask[joined + 1].st \in {"done", "failed"}
    /\ IF ftask[joined + 1].st = "done"
       THEN /\ total_chunks' = total_chunks + ftask[joined + 1].total
            /\ joined' = joined + 1
            /\ rpc' = after_join(joined + 1, Len(files), icfg)
            /\ commits' = IF rpc' = "commit" THEN commits + 1 ELSE commits
       ELSE /\ rpc' = "err"
            /\ UNCHANGED <<total_chunks, joined, commits>>
    /\ UNCHANGED <<chunk_vars, jsonl, cache_lock, chist, stored, icfg, files, spawned, file_permits, embed_permits, ftask, subs,
                   cache, embed_count, completed>>

\* The full-text store answers the commit of quickwit_commit; a failure is
\* returned by run (`quickwit_commit(..).await?`, lines 111-113, 493-506).
CommitReturn ==
    /\ rpc = "commit"
    /\ \E r \in {"ok", "err"} : rpc' = r
    /\ UNCHANGED <<chunk_vars, jsonl, commits, cache_lock, chist, stored, icfg, files, spawned, joined, total_chunks, file_permits,
                   embed_permits, ftask, subs, cache, embed_count, completed>>

----------------------------------------------------------------------------
(* main.rs: the process *)

\* A file task that was spawned and has not ended is dropped with the
\* runtime, and its locals with it; the batch index and the count it had
\* reached stay on record.
cancel_task(t) ==
    IF t.st \in {"idle", "done", "failed"} THEN t
    ELSE [IdleTask EXCEPT !.st = "cancelled", !.batch_idx = t.batch_idx,
                          !.total = t.total]

\* The permits held by the futures that are dropped.
held_file_permits == Cardinality({f \in DOMAIN ftask : cancel_task(ftask[f]) # ftask[f]})

held_embed_permits ==
    Cardinality(UNION {{<<f, j>> : j \in {k \in DOMAIN subs[f] : subs[f][k].st = "http"}}
                       : f \in DOMAIN subs})

\* insert::run has returned to main, main returns and the runtime built by
\* #[tokio::main] is dropped: every task still on it is dropped at its
\* await point with the permits it holds, the embedding tasks and the cache
\* they share included.
MainExit ==
    /\ rpc \in {"ok", "err"}
    /\ rpc' = IF rpc = "ok" THEN "exit_ok" ELSE "exit_err"
    /\ ftask' = [f \in DOMAIN ftask |-> cancel_task(ftask[f])]
    /\ subs' = [f \in DOMAIN subs |-> <<>>]
    /\ cache' = new_cache(cache.max_entries)
    /\ file_permits' = file_permits + held_file_permits
    /\ embed_permits' = embed_permits + held_embed_permits
    /\ UNCHANGED <<chunk_vars, jsonl, commits, cache_lock, chist, stored, icfg, files, spawned, joined, total_chunks,
                   embed_count, completed>>

----------------------------------------------------------------------------
(* insert.rs: ingest_file *)

\* The task of file f fails: the error leaves the async block, _permit drops.
fail_task(t) == [t EXCEPT !.st = "failed"]

\* A task that ends without giving its permit back.
permits_after_task_mut(permits) == permits

\* `let _permit = permit;` (run, line 85): the permit of the task goes back
\* to file_semaphore when the async block ends, with Ok or with Err.
permits_after_task(permits) == permits + 1

\* A line loop that hands over full batches only, with no flush of the
\* records left in the buffer after the last line.
has_batch_mut(pos, n, batch_size) == n - pos >= Max(batch_size, 1)

\* A call of process_batch is still to come: a record is left, which either
\* fills the buffer (line 146) or is flushed after the loop (line 175).
has_batch(pos, n, batch_size) == pos < n

\* The line loop up to the next call of process_batch (lines 139-164 and
\* 175-193), and the first lines of process_batch (267-269).
StartBatch(f) ==
    /\ ftask[f].st = "read"
    /\ has_batch(ftask[f].pos, Len(record_lines(jsonl[f])), icfg.batch_size)
    /\ LET t == ftask[f]
           n == batch_len(icfg.batch_size, Len(record_lines(jsonl[f])) - t.pos)
       IN ftask' = [ftask EXCEPT ![f] =
              [t EXCEPT !.st = "probe",
                        !.pos = t.pos + n,
                        !.batch_idx = t.batch_idx + 1,
                        !.batch = read_records(jsonl[f], t.pos, n),
                        !.vectors = [i \in 1..n |-> None],
                        !.misses = <<>>,
                        !.pi = 1]]
    /\ UNCHANGED <<chunk_vars, jsonl, commits, cache_lock, chist, stored, icfg, files, rpc, spawned, joined, total_chunks, file_permits,
                   embed_permits, subs, cache, embed_count, completed>>

\* No line is left: ingest_file returns Ok(total), the task ends and its
\* file permit is dropped.
FinishFile(f) ==
    /\ ftask[f].st = "read"
    /\ ~has_batch(ftask[f].pos, Len(record_lines(jsonl[f])), icfg.batch_size)
    /\ ftask' = [ftask EXCEPT ![f].st = "done"]
    /\ file_permits' = permits_after_task(file_permits)
    /\ UNCHANGED <<chunk_vars, jsonl, commits, cache_lock, chist, stored, icfg, files, rpc, spawned, joined, total_chunks,
                   embed_permits, subs, cache, embed_count, completed>>

----------------------------------------------------------------------------
(* insert.rs: process_batch *)

\* `cache.lock().unwrap()`: the guard of the Mutex, taken by the task who.
MutexGuard(who) == Some(who)

\* The guard is a temporary of the statement that took it (lines 272, 300):
\* it is dropped when the statement ends, before the task reaches an await.
drop_guard(guard) == None

\* One iteration of the cache probe loop (lines 270-278).
ProbeCache(f) ==
    /\ ftask[f].st = "probe"
    /\ ftask[f].pi <= Len(ftask[f].batch)
    /\ IF CacheEnabled
       THEN /\ cache_lock = None
            /\ cache_lock' = drop_guard(MutexGuard(<<f>>))
       ELSE UNCHANGED cache_lock
    /\ LET t == ftask[f]
           record == t.batch[t.pi]
           got == IF CacheEnabled THEN cache_get(cache, record.text) ELSE None
       IN ftask' = [ftask EXCEPT ![f] =
              IF got # None
              THEN [t EXCEPT !.vectors[t.pi] = got, !.pi = t.pi + 1]
              ELSE [t EXCEPT !.misses = Append(t.misses,
                                               [idx |-> t.pi, text |-> record.text]),
                             !.pi = t.pi + 1]]
    /\ UNCHANGED <<chunk_vars, jsonl, commits, chist, stored, icfg, files, rpc, spawned, joined, total_chunks, file_permits,
                   embed_permits, subs, cache, embed_count, completed>>

NewSub(items, b) ==
    [batch_idx |-> b, items |-> items, k |-> 1, st |-> "wait", prompt |-> <<>>,
     vec |-> None, results |-> <<>>]

\* Spawn one task per chunk of misses (lines 280-306).
DispatchEmbeds(f) ==
    /\ ftask[f].st = "probe"
    /\ ftask[f].pi > Len(ftask[f].batch)
    /\ LET groups == slice_chunks(ftask[f].misses, Max(icfg.request_batch_size, 1))
       IN subs' = [subs EXCEPT ![f] =
              [j \in 1..Len(groups) |-> NewSub(groups[j], ftask[f].batch_idx)]]
    /\ ftask' = [ftask EXCEPT ![f].st = "join", ![f].ji = 1]
    /\ UNCHANGED <<chunk_vars, jsonl, commits, cache_lock, chist, stored, icfg, files, rpc, spawned, joined, total_chunks, file_permits,
                   embed_permits, cache, embed_count, completed>>

\* The embedding task moves to its next item, or returns Ok(results).
advance(s, vec) ==
    [s EXCEPT !.results = Append(s.results, [idx |-> s.items[s.k].idx, vec |-> vec]),
              !.vec = None,
              !.k = s.k + 1,
              !.st = IF s.k = Len(s.items) THEN "ok" ELSE "wait"]

\* Truncate the text, acquire an embedding permit and send the request of
\* embed_text (lines 293-297, 358-362).
EmbedSend(f, j) ==
    /\ subs[f][j].st = "wait"
    /\ embed_permits > 0
    /\ embed_permits' = embed_permits - 1
    /\ LET s == subs[f][j]
           text == s.items[s.k].text
       IN /\ subs' = [subs EXCEPT ![f][j] =
                 [s EXCEPT !.st = "http",
                           !.prompt = truncate(text, icfg.max_input_chars)]]
          /\ embed_count' = [embed_count EXCEPT ![text] = @ + 1]
    /\ UNCHANGED <<chunk_vars, jsonl, commits, cache_lock, chist, stored, icfg, files, rpc, spawned, joined, total_chunks, file_permits,
                   ftask, cache, completed>>

\* A task that keeps its permit when the call has failed.
permits_after_call_mut(permits, ok) == IF ok THEN permits + 1 ELSE permits

\* The permit of the task goes back to embed_semaphore: `drop(permit)` after
\* the call (line 298), or, when `embed_text(..).await?` returns the error
\* (line 297), with the locals of the task.
permits_after_call(permits, ok) == permits + 1

\* The response of the embedding service arrives: an embedding array of any
\* length (lines 375-383, then drop(permit)), or a failure, which ends the
\* task and drops its permit.
EmbedReturn(f, j) ==
    /\ subs[f][j].st = "http"
    /\ LET s == subs[f][j]
       IN \/ /\ embed_permits' = permits_after_call(embed_permits, TRUE)
             /\ \E d \in 1..MaxDim :
                  LET vec == [prompt |-> s.prompt, dim |-> d]
                  IN subs' = [subs EXCEPT ![f][j] =
                         IF CacheEnabled
                         THEN [s EXCEPT !.st = "insert", !.vec = Some(vec)]
                         ELSE advance(s, vec)]
          \/ /\ embed_permits' = permits_after_call(embed_permits, FALSE)
             /\ subs' = [subs EXCEPT ![f][j].st = "err"]
    /\ UNCHANGED <<chunk_vars, jsonl, commits, cache_lock, chist, stored, icfg, files, rpc, spawned, joined, total_chunks, file_permits,
                   ftask, cache, embed_count, completed>>

\* `cache.lock().unwrap().insert(text.clone(), vec.clone())` (lines 299-302).
EmbedCacheInsert(f, j) ==
    /\ subs[f][j].st = "insert"
    /\ cache_lock = None
    /\ cache_lock' = drop_guard(MutexGuard(<<f, j>>))
    /\ LET s == subs[f][j]
       IN /\ cache' = cache_insert(cache, s.prompt, s.vec[1])
          /\ subs' = [subs EXCEPT ![f][j] = advance(s, s.vec[1])]
    /\ UNCHANGED <<chunk_vars, jsonl, commits, chist, stored, icfg, files, rpc, spawned, joined, total_chunks, file_permits,
                   embed_permits, ftask, embed_count, completed>>

\* Results written from the far end of the batch instead of at their index.
RECURSIVE store_results_mut(_, _)
store_results_mut(vectors, results) ==
    IF results = <<>> THEN vectors
    ELSE store_results_mut(
             [vectors EXCEPT ![Len(vectors) + 1 - Head(results).idx] =
                                 Some(Head(results).vec)],
             Tail(results))

\* `vectors[idx] = Some(vec)` for every result of one joined task.
RECURSIVE store_results(_, _)
store_results(vectors, results) ==
    IF results = <<>> THEN vectors
    ELSE store_results([vectors EXCEPT ![Head(results).idx] = Some(Head(results).vec)],
                       Tail(results))

\* `for task in tasks { for (idx, vec) in task.await?? {..} }` (lines 308-312):
\* the next task in spawn order has ended.
JoinEmbed(f) ==
    /\ ftask[f].st = "join"
    /\ ftask[f].ji <= Len(subs[f])
    /\ subs[f][ftask[f].ji].st \in {"ok", "err"}
    /\ LET t == ftask[f]
           s == subs[f][t.ji]
       IN IF s.st = "ok"
          THEN /\ ftask' = [ftask EXCEPT ![f] =
                      [t EXCEPT !.vectors = store_results(t.vectors, s.results),
                                !.ji = t.ji + 1]]
               /\ UNCHANGED file_permits
          ELSE /\ ftask' = [ftask EXCEPT ![f] = fail_task(t)]
               /\ file_permits' = permits_after_task(file_permits)
    /\ UNCHANGED <<chunk_vars, jsonl, commits, cache_lock, chist, stored, icfg, files, rpc, spawned, joined, total_chunks,
                   embed_permits, subs, cache, embed_count, completed>>

\* The points array of upsert_qdrant (lines 421-431).
make_points(batch, vectors) ==
    [i \in 1..Min(Len(batch), Len(vectors)) |->
        [id |-> batch[i].id, vector |-> vectors[i], payload |-> batch[i].metadata]]

\* Every sub-task is joined: unwrap the slots (lines 314-317), then start
\* upsert_qdrant and ingest_quickwit under tokio::join! (lines 329-331).
IssueStores(f) ==
    /\ ftask[f].st = "join"
    /\ ftask[f].ji > Len(subs[f])
    /\ LET t == ftask[f]
       IN IF \E i \in 1..Len(t.vectors) : t.vectors[i] = None
          THEN /\ ftask' = [ftask EXCEPT ![f] = fail_task(t)]
               /\ file_permits' = permits_after_task(file_permits)
          ELSE /\ ftask' = [ftask EXCEPT ![f] =
                      [t EXCEPT !.st = "stores",
                                !.qdrant = IF Len(t.batch) # Len(t.vectors)
                                           THEN "err" ELSE "sent",
                                !.quickwit = "sent",
                                !.points = make_points(t.batch,
                                              [i \in 1..Len(t.vectors) |-> t.vectors[i][1]])]]
               /\ UNCHANGED file_permits
    /\ UNCHANGED <<chunk_vars, jsonl, commits, cache_lock, chist, stored, icfg, files, rpc, spawned, joined, total_chunks,
                   embed_permits, subs, cache, embed_count, completed>>

\* A join that goes on as soon as the upsert has completed.
both_returned_mut(t) == t.qdrant \in {"ok", "err"}

\* tokio::join!: both futures have completed.
both_returned(t) == t.qdrant \in {"ok", "err"} /\ t.quickwit \in {"ok", "err"}

\* The body of ingest_quickwit: one JSON line per record (lines 468-476).
ingest_body(batch) ==
    [i \in 1..Len(batch) |->
        [id |-> batch[i].id, text |-> batch[i].text, metadata |-> batch[i].metadata]]

\* The ids carried by a request, in order.
ids_of(items) == [i \in 1..Len(items) |-> items[i].id]

\* The vector store answers the upsert: a success status, or a failure
\* (lines 441-446).
UpsertReturn(f) ==
    /\ ftask[f].st = "stores"
    /\ ftask[f].qdrant = "sent"
    /\ \E r \in {"ok", "err"} :
         /\ ftask' = [ftask EXCEPT ![f].qdrant = r]
         /\ stored' = IF r = "ok"
                       THEN [stored EXCEPT ![f].qdrant =
                                Append(@, ids_of(ftask[f].points))]
                       ELSE stored
         /\ completed' = [completed EXCEPT ![f] =
                IF ftask[f].quickwit \in {"ok", "err"} THEN @ + 1 ELSE @]
    /\ UNCHANGED <<chunk_vars, jsonl, commits, cache_lock, chist, icfg, files, rpc, spawned, joined, total_chunks, file_permits,
                   embed_permits, subs, cache, embed_count>>

\* The full-text store answers the ingest: a success status, or a failure
\* (lines 477-489).
IngestReturn(f) ==
    /\ ftask[f].st = "stores"
    /\ ftask[f].quickwit = "sent"
    /\ \E r \in {"ok", "err"} :
         /\ ftask' = [ftask EXCEPT ![f].quickwit = r]
         /\ stored' = IF r = "ok"
                       THEN [stored EXCEPT ![f].quickwit =
                                Append(@, ids_of(ingest_body(ftask[f].batch)))]
                       ELSE stored
         /\ completed' = [completed EXCEPT ![f] =
                IF ftask[f].qdrant \in {"ok", "err"} THEN @ + 1 ELSE @]
    /\ UNCHANGED <<chunk_vars, jsonl, commits, cache_lock, chist, icfg, files, rpc, spawned, joined, total_chunks, file_permits,
                   embed_permits, subs, cache, embed_count>>

\* A batch that counts as soon as the upsert has succeeded.
batch_ok_mut(t) == t.qdrant # "err"

\* `qdrant_res?; quickwit_res?;` passes both (lines 332, 340).
batch_ok(t) == t.qdrant # "err" /\ t.quickwit # "err"

\* `qdrant_res?; quickwit_res?; Ok(batch.len())` and, in ingest_file,
\* `total += ...; buffer.clear()`.
FinishBatch(f) ==
    /\ ftask[f].st = "stores"
    /\ both_returned(ftask[f])
    /\ LET t == ftask[f]
       IN IF batch_ok(t)
          THEN /\ ftask' = [ftask EXCEPT ![f] =
                      [t EXCEPT !.st = "read",
                                !.total = t.total + Len(t.batch),
                                !.batch = <<>>, !.vectors = <<>>, !.misses = <<>>,
                                !.pi = 0, !.ji = 0, !.points = <<>>,
                                !.qdrant = "none", !.quickwit = "none"]]
               /\ UNCHANGED file_permits
          ELSE /\ ftask' = [ftask EXCEPT ![f] = fail_task(t)]
               /\ file_permits' = permits_after_task(file_permits)
    /\ UNCHANGED <<chunk_vars, jsonl, commits, cache_lock, chist, stored, icfg, files, rpc, spawned, joined, total_chunks,
                   embed_permits, subs, cache, embed_count, completed>>

----------------------------------------------------------------------------
(* insert.rs: the EmbeddingCache on its own *)

MaxEntries == 2      \* largest enumerated capacity of the cache
MaxOps == 4          \* largest number of insert calls of a run of the cache

\* The texts handed to get and insert.
CacheTexts == {<<"a">>, <<"E">>, <<".">>, <<"a", "a">>}

\* No call of the cache has been made.
NoCalls ==
    [op |-> "new", text |-> <<>>, result |-> None, clock |-> 0, born |-> <<>>,
     evicted |-> {}, replaced |-> FALSE]

\* `cache.lock().unwrap().get(&record.text)`: get takes &self.
CacheGet(text) ==
    /\ chist' = [chist EXCEPT !.op = "get", !.text = text,
                              !.result = cache_get(cache, text),
                              !.evicted = {}, !.replaced = FALSE]
    /\ UNCHANGED <<chunk_vars, jsonl, commits, cache_lock, cache, icfg, files, rpc, spawned, joined, total_chunks,
                   file_permits, embed_permits, ftask, subs, embed_count, completed,
                   stored>>

\* `cache.lock().unwrap().insert(text, vec)`.
CacheInsert(text, vec) ==
    /\ chist.clock < MaxOps
    /\ cache' = cache_insert(cache, text, vec)
    /\ chist' = [op |-> "insert", text |-> text, result |-> Some(vec),
                 clock |-> chist.clock + 1,
                 born |-> [k \in DOMAIN cache'.values |->
                              IF k \in DOMAIN cache.values /\ k \in DOMAIN chist.born
                              THEN chist.born[k] ELSE chist.clock + 1],
                 evicted |-> DOMAIN cache.values \ DOMAIN cache'.values,
                 replaced |-> hash_text(text) \in DOMAIN cache.values]
    /\ UNCHANGED <<chunk_vars, jsonl, commits, cache_lock, icfg, files, rpc, spawned, joined, total_chunks,
                   file_permits, embed_permits, ftask, subs, embed_count, completed,
                   stored>>

----------------------------------------------------------------------------
(* Specifications *)

\* build_chunks is entered (lines 182-184); the pipeline is not running.
ChunkInit ==
    /\ \/ /\ cfg \in SmallConfigs
          /\ paragraphs \in ParagraphLists(MaxChars)
       \/ /\ cfg = ScenarioConfig
          /\ paragraphs \in ScenarioParagraphs
    /\ pidx = 1
    /\ queue = <<>>
    /\ current = <<>>
    /\ last_overlap = <<>>
    /\ chunks = <<>>
    /\ cpc = "loop"
    /\ fed = <<>>
    /\ cur_seed = <<>>
    /\ seeds = <<>>
    /\ raw = <<>>
    /\ records = <<>>
    /\ walk = NoWalk
    \* insert.rs at rest
    /\ icfg = [max_parallel_files |-> 0, global_max_concurrency |-> 0,
               max_concurrency |-> 0, batch_size |-> 1, request_batch_size |-> 0,
               cache_max_entries |-> 0, max_input_chars |-> 0,
               commit_at_end |-> FALSE, create_collection |-> FALSE]
    /\ files = <<>>
    /\ jsonl = <<>>
    /\ cache_lock = None
    /\ commits = 0
    /\ rpc = "ok"
    /\ spawned = 0
    /\ joined = 0
    /\ total_chunks = 0
    /\ file_permits = 0
    /\ embed_permits = 0
    /\ ftask = <<>>
    /\ subs = <<>>
    /\ cache = new_cache(0)
    /\ embed_count = <<>>
    /\ completed = <<>>
    /\ stored = <<>>
    /\ chist = NoCalls

\* run is entered (line 23).  The semaphores and the cache hold what run
\* builds them with (lines 58-73), the only values they have before the
\* first task is spawned.  The chunk files are those chunk_file wrote, with
\* or without blank lines.
InsertInit ==
    /\ icfg \in InsertConfigs
    /\ files \in Corpora
    /\ icfg.batch_size <= Max(LongestFile(files), 1)
    /\ (icfg.create_collection \/ icfg.max_input_chars = 2) => Len(files) <= 1
    /\ \/ jsonl = [f \in FileIds |-> write_jsonl(files[f])]
       \/ /\ ReferenceShape(icfg) /\ ReferenceLimits(icfg) /\ icfg.commit_at_end
          /\ ~icfg.create_collection /\ icfg.batch_size = 2 /\ Len(files) <= 1
          /\ jsonl = [f \in FileIds |-> write_jsonl_blanks(files[f])]
    /\ cache_lock = None
    /\ commits = 0
    /\ rpc = "start"
    /\ spawned = 0
    /\ joined = 0
    /\ total_chunks = 0
    /\ file_permits = file_limit(icfg)
    /\ embed_permits = embed_limit(icfg)
    /\ ftask = [f \in FileIds |-> IdleTask]
    /\ subs = [f \in FileIds |-> <<>>]
    /\ cache = new_cache(icfg.cache_max_entries)
    /\ embed_count = [t \in Texts |-> 0]
    /\ completed = [f \in FileIds |-> 0]
    /\ stored = [f \in FileIds |-> [qdrant |-> <<>>, quickwit |-> <<>>]]
    /\ chist = NoCalls
    \* chunk.rs at rest
    /\ cfg = ScenarioConfig
    /\ paragraphs = <<>>
    /\ pidx = 1
    /\ queue = <<>>
    /\ current = <<>>
    /\ last_overlap = <<>>
    /\ chunks = <<>>
    /\ cpc = "done"
    /\ fed = <<>>
    /\ cur_seed = <<>>
    /\ seeds = <<>>
    /\ raw = <<>>
    /\ records = <<>>
    /\ walk = NoWalk

\* The configurations of the runs taken for the termination property: each of the two
\* limits at 0 and at its largest value, with the reference embedding
\* options.
LiveConfigs ==
    {c \in InsertConfigs :
        /\ ReferenceShape(c)
        /\ c.max_parallel_files \in {0, MaxLimit}
        /\ c.global_max_concurrency \in {0, MaxLimit}
        /\ c.max_concurrency = 0
        /\ c.batch_size = 1
        /\ c.commit_at_end}

\* run is entered (line 23), as in InsertInit.
LiveInit ==
    /\ icfg \in LiveConfigs
    /\ files \in Corpora
    /\ icfg.batch_size <= Max(LongestFile(files), 1)
    /\ (icfg.create_collection \/ icfg.max_input_chars = 2) => Len(files) <= 1
    /\ \/ jsonl = [f \in FileIds |-> write_jsonl(files[f])]
       \/ /\ ReferenceShape(icfg) /\ ReferenceLimits(icfg) /\ icfg.commit_at_end
          /\ ~icfg.create_collection /\ icfg.batch_size = 2 /\ Len(files) <= 1
          /\ jsonl = [f \in FileIds |-> write_jsonl_blanks(files[f])]
    /\ cache_lock = None
    /\ commits = 0
    /\ rpc = "start"
    /\ spawned = 0
    /\ joined = 0
    /\ total_chunks = 0
    /\ file_permits = file_limit(icfg)
    /\ embed_permits = embed_limit(icfg)
    /\ ftask = [f \in FileIds |-> IdleTask]
    /\ subs = [f \in FileIds |-> <<>>]
    /\ cache = new_cache(icfg.cache_max_entries)
    /\ embed_count = [t \in Texts |-> 0]
    /\ completed = [f \in FileIds |-> 0]
    /\ stored = [f \in FileIds |-> [qdrant |-> <<>>, quickwit |-> <<>>]]
    /\ chist = NoCalls
    \* chunk.rs at rest
    /\ cfg = ScenarioConfig
    /\ paragraphs = <<>>
    /\ pidx = 1
    /\ queue = <<>>
    /\ current = <<>>
    /\ last_overlap = <<>>
    /\ chunks = <<>>
    /\ cpc = "done"
    /\ fed = <<>>
    /\ cur_seed = <<>>
    /\ seeds = <<>>
    /\ raw = <<>>
    /\ records = <<>>
    /\ walk = NoWalk

\* EmbeddingCache::new(max_entries) with max_entries > 0 (lines 67-73); the
\* pipeline and the chunker are not running.
CacheInit ==
    /\ cache \in {new_cache(n) : n \in 1..MaxEntries}
    /\ chist = NoCalls
    /\ icfg = [max_parallel_files |-> 0, global_max_concurrency |-> 0,
               max_concurrency |-> 0, batch_size |-> 1, request_batch_size |-> 0,
               cache_max_entries |-> cache.max_entries, max_input_chars |-> 0,
               commit_at_end |-> FALSE, create_collection |-> FALSE]
    /\ files = <<>>
    /\ jsonl = <<>>
    /\ cache_lock = None
    /\ commits = 0
    /\ rpc = "ok"
    /\ spawned = 0
    /\ joined = 0
    /\ total_chunks = 0
    /\ file_permits = 0
    /\ embed_permits = 0
    /\ ftask = <<>>
    /\ subs = <<>>
    /\ embed_count = <<>>
    /\ completed = <<>>
    /\ stored = <<>>
    /\ cfg = ScenarioConfig
    /\ paragraphs = <<>>
    /\ pidx = 1
    /\ queue = <<>>
    /\ current = <<>>
    /\ last_overlap = <<>>
    /\ chunks = <<>>
    /\ cpc = "done"
    /\ fed = <<>>
    /\ cur_seed = <<>>
    /\ seeds = <<>>
    /\ raw = <<>>
    /\ records = <<>>
    /\ walk = NoWalk

\* chunk_file is entered with the content of a .txt file (line 50); the
\* pipeline is not running.
FileInit ==
    /\ \/ /\ cfg \in SmallFileConfigs
          /\ raw \in SmallTexts
       \/ /\ cfg \in TestConfigs
          /\ raw \in ScenarioTexts
    /\ cpc = "file"
    /\ paragraphs = <<>>
    /\ pidx = 1
    /\ queue = <<>>
    /\ current = <<>>
    /\ last_overlap = <<>>
    /\ chunks = <<>>
    /\ fed = <<>>
    /\ cur_seed = <<>>
    /\ seeds = <<>>
    /\ records = <<>>
    /\ walk = NoWalk
    /\ icfg = [max_parallel_files |-> 0, global_max_concurrency |-> 0,
               max_concurrency |-> 0, batch_size |-> 1, request_batch_size |-> 0,
               cache_max_entries |-> 0, max_input_chars |-> 0,
               commit_at_end |-> FALSE, create_collection |-> FALSE]
    /\ files = <<>>
    /\ jsonl = <<>>
    /\ cache_lock = None
    /\ commits = 0
    /\ rpc = "ok"
    /\ spawned = 0
    /\ joined = 0
    /\ total_chunks = 0
    /\ file_permits = 0
    /\ embed_permits = 0
    /\ ftask = <<>>
    /\ subs = <<>>
    /\ cache = new_cache(0)
    /\ embed_count = <<>>
    /\ completed = <<>>
    /\ stored = <<>>
    /\ chist = NoCalls

\* chunk::run is entered (line 21); the pipeline is not running.
WalkInit ==
    /\ cfg = WalkConfig
    /\ walk \in {[entries |-> es, idx |-> 0,
                  done |-> [i \in 1..Len(es) |-> [st |-> "todo", records |-> <<>>]],
                  rc |-> "run"] : es \in WalkLists}
    /\ cpc = "next"
    /\ raw = <<>>
    /\ paragraphs = <<>>
    /\ pidx = 1
    /\ queue = <<>>
    /\ current = <<>>
    /\ last_overlap = <<>>
    /\ chunks = <<>>
    /\ fed = <<>>
    /\ cur_seed = <<>>
    /\ seeds = <<>>
    /\ records = <<>>
    /\ icfg = [max_parallel_files |-> 0, global_max_concurrency |-> 0,
               max_concurrency |-> 0, batch_size |-> 1, request_batch_size |-> 0,
               cache_max_entries |-> 0, max_input_chars |-> 0,
               commit_at_end |-> FALSE, create_collection |-> FALSE]
    /\ files = <<>>
    /\ jsonl = <<>>
    /\ cache_lock = None
    /\ commits = 0
    /\ rpc = "ok"
    /\ spawned = 0
    /\ joined = 0
    /\ total_chunks = 0
    /\ file_permits = 0
    /\ embed_permits = 0
    /\ ftask = <<>>
    /\ subs = <<>>
    /\ cache = new_cache(0)
    /\ embed_count = <<>>
    /\ completed = <<>>
    /\ stored = <<>>
    /\ chist = NoCalls

WalkNext ==
    \/ NextFile
    \/ ReadFile
    \/ TakeParagraph
    \/ AppendPiece
    \/ FinishChunks
    \/ WriteRecords
    \/ FileChunked
    \/ RunFailed
    \/ RunDone

SpecWalk == WalkInit /\ [][WalkNext]_vars

FileNext == ReadFile \/ TakeParagraph \/ AppendPiece \/ FinishChunks \/ WriteRecords

SpecFile == FileInit /\ [][FileNext]_vars

CacheNext ==
    \/ \E text \in CacheTexts : CacheGet(text)
    \/ \E text \in CacheTexts : \E d \in 1..MaxDim :
          CacheInsert(text, [prompt |-> text, dim |-> d])

SpecCache == CacheInit /\ [][CacheNext]_vars

ChunkNext == TakeParagraph \/ AppendPiece \/ FinishChunks

SpecChunk == ChunkInit /\ [][ChunkNext]_vars

InsertNext ==
    \/ RunStart
    \/ EnsureReturn
    \/ RunSpawn
    \/ RunJoin
    \/ CommitReturn
    \/ MainExit
    \/ \E f \in FileIds : StartBatch(f)
    \/ \E f \in FileIds : FinishFile(f)
    \/ \E f \in FileIds : ProbeCache(f)
    \/ \E f \in FileIds : DispatchEmbeds(f)
    \/ \E f \in FileIds : JoinEmbed(f)
    \/ \E f \in FileIds : IssueStores(f)
    \/ \E f \in FileIds : UpsertReturn(f)
    \/ \E f \in FileIds : IngestReturn(f)
    \/ \E f \in FileIds : FinishBatch(f)
    \/ \E f \in FileIds : \E j \in DOMAIN subs[f] : EmbedSend(f, j)
    \/ \E f \in FileIds : \E j \in DOMAIN subs[f] : EmbedReturn(f, j)
    \/ \E f \in FileIds : \E j \in DOMAIN subs[f] : EmbedCacheInsert(f, j)

SpecInsert == InsertInit /\ [][InsertNext]_vars

\* Every task that can take a step is scheduled in the end, and every HTTP
\* request that is in flight returns in the end: a step of the pipeline that
\* stays possible is taken.
SpecInsertLive == LiveInit /\ [][InsertNext]_vars /\ WF_vars(InsertNext)

----------------------------------------------------------------------------
(* Claims about build_chunks *)

\* C1: when build_chunks has returned (max_chunk_chars >= 1), every piece
\* that was fed to the assembler is contained in at least one emitted chunk:
\* the chunk under construction is closed, not discarded, when the next
\* piece does not fit.
C1_NoPieceDropped ==
    (cpc = "done" /\ cfg.max_chunk_chars >= 1) =>
        \A i \in 1..Len(fed) :
            \E j \in 1..Len(chunks) : IsSubstring(fed[i], chunks[j])

\* A word that cannot be split further: one character, no whitespace.
UnsplittableWord(chunk) == Len(chunk) = 1 /\ ~IsWhitespace(chunk[1])

\* C2: with max_chunk_chars >= 1 every emitted chunk has byte length
\* <= max_chunk_chars, except a chunk that is a single word that cannot be
\* split further.
C2_ChunkWithinMax ==
    cfg.max_chunk_chars >= 1 =>
        \A j \in 1..Len(chunks) :
            \/ ByteLen(chunks[j]) <= cfg.max_chunk_chars
            \/ UnsplittableWord(chunks[j])

\* C3: for consecutive chunks C_i, C_i+1 with chunk_overlap_chars = K > 0 and
\* more than K characters in C_i, C_i+1 begins with the last K characters of
\* C_i, unless that tail joined with the piece that starts C_i+1 would
\* exceed max_chunk_chars.
C3_OverlapCarried ==
    \A i \in 1..(Len(chunks) - 1) :
        LET K == cfg.chunk_overlap_chars
            tail == overlap_tail(chunks[i], K)
        IN (/\ K > 0
            /\ Len(chunks[i]) > K
            /\ ByteLen(tail \o <<" ">> \o seeds[i + 1]) <= cfg.max_chunk_chars)
           => IsPrefix(tail, chunks[i + 1])

\* C4: target 50, max 60, overlap 10 and paragraphs of 45 and 40 characters
\* yield exactly two chunks, the second beginning with the last 10
\* characters of the first.
C4_ScenarioTwoChunks ==
    (IsScenario /\ cpc = "done") =>
        /\ Len(chunks) = 2
        /\ SubSeq(chunks[2], 1, 10) = overlap_tail(chunks[1], 10)

\* C31: every chunk returned by build_chunks except possibly the last one
\* has byte length >= target_chunk_chars: inside the loops a chunk is
\* emitted only on reaching the target, and the only other chunk is the one
\* pushed at the end of the input.
C31_OnlyLastBelowTarget ==
    \A j \in 1..Len(chunks) :
        (j < Len(chunks) \/ cpc # "done") =>
            ByteLen(chunks[j]) >= cfg.target_chunk_chars

\* build_chunks has returned several chunks, the last one short of the
\* target, an earlier one reaching it only by its byte length.
C31_Witness ==
    /\ cpc = "done"
    /\ Len(chunks) >= 2
    /\ cfg.target_chunk_chars >= 2
    /\ ByteLen(chunks[Len(chunks)]) < cfg.target_chunk_chars
    /\ \E j \in 1..(Len(chunks) - 1) : Len(chunks[j]) < cfg.target_chunk_chars

----------------------------------------------------------------------------
(* Claims about insert::run, ingest_file and process_batch *)

Running(f) == ftask[f].st \notin {"idle", "done", "failed", "cancelled"}

RunningFiles == {f \in FileIds : Running(f)}

\* C5: the per-file tasks launched and not yet completed or failed number at
\* most max(1, max_parallel_files), every permit not held by such a task is
\* back in the semaphore (released on completion and on failure), and with a
\* limit of one no batch of the second file starts before the task of the
\* first file has ended, with all of its records loaded when it succeeded.
C5_FileTasksBounded ==
    LET limit == IF icfg.max_parallel_files > 1 THEN icfg.max_parallel_files ELSE 1
    IN /\ Cardinality(RunningFiles) <= limit
       /\ file_permits = limit - Cardinality(RunningFiles)
       /\ (icfg.max_parallel_files <= 1 /\ 2 \in FileIds /\ ftask[2].batch_idx >= 1) =>
             /\ ftask[1].st \in {"done", "failed"}
             /\ ftask[1].st = "done" => ftask[1].total = Len(files[1])

C5_Witness ==
    /\ Len(files) = 2
    /\ icfg.max_parallel_files = 1
    /\ icfg.batch_size = 1
    /\ ftask[1].st = "done"
    /\ ftask[1].batch_idx = 2
    /\ ftask[2].batch_idx = 1
    /\ Running(2)

InFlightEmbeds ==
    UNION {{<<f, j>> : j \in {k \in DOMAIN subs[f] : subs[f][k].st = "http"}}
           : f \in FileIds}

WaitingEmbeds ==
    UNION {{<<f, j>> : j \in {k \in DOMAIN subs[f] : subs[f][k].st = "wait"}}
           : f \in FileIds}

\* C6: across all files and batches the embedding HTTP calls in flight number
\* at most L, where L is global_max_concurrency if it is > 0, otherwise
\* max_concurrency, floored at 1.
C6_EmbedCallsBounded ==
    LET l == IF icfg.global_max_concurrency > 0
             THEN icfg.global_max_concurrency
             ELSE icfg.max_concurrency
        L == IF l >= 1 THEN l ELSE 1
    IN Cardinality(InFlightEmbeds) <= L

C6_Witness ==
    /\ icfg.global_max_concurrency = 0
    /\ icfg.max_concurrency = 2
    /\ Cardinality(InFlightEmbeds) = 2
    /\ WaitingEmbeds # {}

\* C7: with the cache enabled and its capacity not exceeded, records with
\* identical text cause at most one embedding request, in one batch, across
\* batches and across files.
C7_OneRequestPerText ==
    (CacheEnabled /\ icfg.cache_max_entries >= Cardinality(Texts)) =>
        \A t \in Texts : embed_count[t] <= 1

\* C8: every upsert request carries one point per record of the batch, point
\* i with the id and the metadata of record i and the vector obtained for the
\* text of record i, and it is issued with no vector slot missing.
C8_PointsMatchRecords ==
    \A f \in FileIds :
        LET t == ftask[f]
        IN t.qdrant # "none" =>
             /\ Len(t.points) = Len(t.batch)
             /\ \A i \in 1..Len(t.vectors) : t.vectors[i] # None
             /\ \A i \in 1..Len(t.batch) :
                  /\ t.points[i].id = t.batch[i].id
                  /\ t.points[i].payload = t.batch[i].metadata
                  /\ t.points[i].vector.prompt
                       = truncate(t.batch[i].text, icfg.max_input_chars)

C8_Witness ==
    \E f \in FileIds :
        /\ ftask[f].qdrant = "sent"
        /\ Len(ftask[f].batch) = 2
        /\ ftask[f].batch[1].text # ftask[f].batch[2].text
        /\ Len(subs[f]) = 2
        /\ icfg.max_input_chars = 0

\* C9: in every upsert request all vectors have the same length, whatever
\* the embedding service returned.
C9_VectorsSameLength ==
    \A f \in FileIds :
        ftask[f].qdrant # "none" =>
            \A i, j \in 1..Len(ftask[f].points) :
                ftask[f].points[i].vector.dim = ftask[f].points[j].vector.dim

\* C10: within a file, an embedding request, an upsert or an ingest of batch
\* N+1 is outstanding only when the upsert and the ingest of every batch up
\* to N have both returned.
C10_BatchesSerial ==
    \A f \in FileIds :
        /\ completed[f] <= ftask[f].batch_idx
        /\ (ftask[f].qdrant # "none" \/ ftask[f].quickwit # "none") =>
               completed[f] >= ftask[f].batch_idx - 1
        /\ \A j \in DOMAIN subs[f] :
               subs[f][j].st = "http" => completed[f] >= subs[f][j].batch_idx - 1

C10_Witness ==
    \E f \in FileIds : \E j \in DOMAIN subs[f] :
        /\ subs[f][j].st = "http"
        /\ subs[f][j].batch_idx = 2
        /\ completed[f] = 1

\* C11: when the task of one file fails, the tasks of the other files are
\* not cut short: by the time the process ends every task has either
\* completed all of its batches or failed on its own, none was dropped while
\* running; and insert::run returns failure.
C11_OthersRunToEnd ==
    /\ rpc = "exit_err" => \A f \in FileIds : ftask[f].st \in {"idle", "done", "failed"}
    /\ (rpc \in {"exit_ok", "exit_err"} /\ \E f \in FileIds : ftask[f].st = "failed")
           => rpc = "exit_err"

RECURSIVE SumLens(_)
SumLens(reqs) == IF reqs = <<>> THEN 0 ELSE Len(Head(reqs)) + SumLens(Tail(reqs))

Range(seq) == {seq[i] : i \in DOMAIN seq}

\* The requests of file f that both stores have accepted.
BothAccepted(f) ==
    SelectSeq(stored[f].qdrant, LAMBDA r : r \in Range(stored[f].quickwit))

\* The batch in hand has been accepted by both stores and is not yet counted.
PendingCount(f) ==
    IF ftask[f].qdrant = "ok" /\ ftask[f].quickwit = "ok" THEN Len(ftask[f].batch) ELSE 0

\* An embedding, the upsert or the ingest of the batch in hand has failed.
BatchFailed(f) ==
    \/ ftask[f].qdrant = "err"
    \/ ftask[f].quickwit = "err"
    \/ ftask[f].st = "join" /\ \E j \in DOMAIN subs[f] : subs[f][j].st = "err"

RECURSIVE SumTotals(_)
SumTotals(n) == IF n = 0 THEN 0 ELSE ftask[n].total + SumTotals(n - 1)

\* C12: the loaded-chunk count of a file is the number of records of the
\* batches that both the upsert and the ingest accepted; once an embedding,
\* the upsert or the ingest of a batch has failed the file does not go on to
\* another batch, its task fails, and a failed task issues nothing more; the
\* total of run is the sum of the counts of the files it has joined.
C12_CountOnlyStoredBatches ==
    /\ [](\A f \in FileIds :
             IF ftask[f].st = "cancelled"
             THEN ftask[f].total <= SumLens(BothAccepted(f))
             ELSE ftask[f].total = SumLens(BothAccepted(f)) - PendingCount(f))
    /\ [](total_chunks = SumTotals(joined))
    /\ [][\A f \in FileIds :
            /\ BatchFailed(f) =>
                 /\ ftask'[f].batch_idx = ftask[f].batch_idx
                 /\ ftask'[f].total = ftask[f].total
                 /\ BatchFailed(f)' \/ ftask'[f].st \in {"failed", "cancelled"}
                 /\ Len(stored'[f].qdrant) <= ftask[f].batch_idx
                 /\ Len(stored'[f].quickwit) <= ftask[f].batch_idx
            /\ ftask[f].st = "failed" =>
                 /\ ftask'[f] = ftask[f]
                 /\ stored'[f] = stored[f]]_vars

C12_Witness ==
    \E f \in FileIds :
        /\ ftask[f].st = "failed"
        /\ ftask[f].batch_idx = 2
        /\ ftask[f].total = 1
        /\ ftask[f].qdrant = "ok"
        /\ ftask[f].quickwit = "err"
        /\ Len(stored[f].qdrant) = 2
        /\ Len(stored[f].quickwit) = 1

\* C13: when process_batch has returned, either both stores have accepted
\* the records of the batch or neither store was written for it: the
\* requests accepted by the vector store and by the full-text store are the
\* same.
C13_BatchAtomic ==
    \A f \in FileIds :
        (ftask[f].st \in {"read", "done", "failed"}
         \/ (ftask[f].st = "stores" /\ both_returned(ftask[f])))
            => Range(stored[f].qdrant) = Range(stored[f].quickwit)

\* The number of accepted requests that carry the id.
Occurrences(reqs, id) ==
    Cardinality({k \in DOMAIN reqs : id \in Range(reqs[k])})

\* C14: when insert::run has returned success, every record of every chunk
\* file is in exactly one accepted upsert and in exactly one accepted ingest;
\* a file of 3 records with batch_size >= 3 gives one upsert of 3 points and
\* one ingest body of 3 lines.
C14_SuccessStoresAll ==
    rpc \in {"ok", "exit_ok"} =>
        \A f \in FileIds :
            /\ \A i \in 1..Len(files[f]) :
                 /\ Occurrences(stored[f].qdrant, files[f][i].id) = 1
                 /\ Occurrences(stored[f].quickwit, files[f][i].id) = 1
            /\ (Len(files[f]) = 3 /\ icfg.batch_size >= 3) =>
                 /\ stored[f].qdrant = <<ids_of(files[f])>>
                 /\ stored[f].quickwit = <<ids_of(files[f])>>

C14_Witness ==
    /\ Len(files) = 1
    /\ rpc = "ok"
    /\ Len(files[1]) = 3
    /\ icfg.batch_size = 3
    /\ Len(stored[1].qdrant) = 1
    /\ Len(stored[1].qdrant[1]) = 3
    /\ Len(stored[1].quickwit[1]) = 3

----------------------------------------------------------------------------
(* Claims about the splitters of chunk.rs *)

RECURSIVE Flatten(_)
Flatten(seqs) == IF seqs = <<>> THEN <<>> ELSE Head(seqs) \o Flatten(Tail(seqs))

\* One word of one-byte characters.
IsAsciiWord(s) == s # <<>> /\ \A i \in 1..Len(s) : Width(s[i]) = 1 /\ ~IsWhitespace(s[i])

IsSuffix(p, s) == Len(p) <= Len(s) /\ SubSeq(s, Len(s) - Len(p) + 1, Len(s)) = p

\* The text without its whitespace.
Squeeze(s) == SelectSeq(s, LAMBDA c : ~IsWhitespace(c))

\* C17: a paragraph that is one word of n ASCII characters, chunked with
\* max_chunk_chars = M < n, for any target_chunk_chars and
\* chunk_overlap_chars, yields ceil(n/M) chunks of at most M bytes each whose
\* concatenation is the word (taken here with max_paragraph_chars >= n, so
\* that the word reaches the assembler through split_by_max_bytes alone).
C17_LongWordSliced ==
    LET n == Len(paragraphs[1])
        M == cfg.max_chunk_chars
    IN (/\ cpc = "done"
        /\ Len(paragraphs) = 1
        /\ IsAsciiWord(paragraphs[1])
        /\ M >= 1
        /\ M < n
        /\ cfg.max_paragraph_chars >= n)
       => /\ Len(chunks) = (n + M - 1) \div M
          /\ \A j \in 1..Len(chunks) : ByteLen(chunks[j]) <= M
          /\ Flatten(chunks) = paragraphs[1]

\* C18: split_by_max_bytes(text, M) with M >= 1 returns pieces of byte
\* length <= M each (a piece of one character cannot be sliced further),
\* none of them empty, which hold the characters of all words of the text in
\* order; checked on the paragraph build_chunks has just handed to it.
C18_SplitWithinMax ==
    LET M == cfg.max_chunk_chars
    IN (/\ cpc = "loop"
        /\ pidx > 1
        /\ M >= 1
        /\ ByteLen(paragraphs[pidx - 1]) <= cfg.max_paragraph_chars
        /\ ByteLen(paragraphs[pidx - 1]) > M)
       => LET pieces == split_by_max_bytes(paragraphs[pidx - 1], M)
          IN /\ IsSuffix(queue, pieces)
             /\ \A k \in 1..Len(pieces) :
                  /\ pieces[k] # <<>>
                  /\ ByteLen(pieces[k]) <= M \/ Len(pieces[k]) = 1
             /\ Squeeze(Flatten(pieces)) = Squeeze(paragraphs[pidx - 1])

----------------------------------------------------------------------------
(* Claims about the EmbeddingCache *)

\* C15: after any sequence of get and insert calls on a cache of capacity
\* N >= 1 the cache holds at most N entries, the insertion-order queue holds
\* exactly the keys of the map, each once, and the entry just inserted is
\* present.
C15_CacheBounded ==
    cache.max_entries >= 1 =>
        /\ Cardinality(DOMAIN cache.values) <= cache.max_entries
        /\ Range(cache.order) = DOMAIN cache.values
        /\ Len(cache.order) = Cardinality(DOMAIN cache.values)
        /\ chist.op = "insert" =>
              /\ hash_text(chist.text) \in DOMAIN cache.values
              /\ cache_get(cache, chist.text) = chist.result

C15_Witness ==
    /\ chist.op = "insert"
    /\ chist.evicted # {}
    /\ Cardinality(DOMAIN cache.values) = cache.max_entries
    /\ cache.max_entries = 2

\* C16: the cache is pure FIFO: get changes neither the contents nor the
\* queue; an insert of a key that is present replaces its vector and leaves
\* the queue as it was; an entry evicted on overflow is one whose first
\* insertion is the oldest of the entries held.
C16_PureFifo ==
    [][/\ chist'.op = "get" => cache' = cache
       /\ chist'.op = "insert" =>
            LET key == hash_text(chist'.text)
            IN /\ key \in DOMAIN cache.values =>
                    /\ cache'.order = cache.order
                    /\ cache'.values = [cache.values EXCEPT ![key] = chist'.result[1]]
               /\ \A old \in DOMAIN cache.values \ DOMAIN cache'.values :
                    \A k \in DOMAIN cache.values : chist.born[old] <= chist.born[k]]_vars

C16_Witness ==
    /\ chist.op = "insert"
    /\ chist.replaced
    /\ Len(cache.order) = 2
    /\ hash_text(chist.text) = cache.order[1]
    /\ chist.born[cache.order[1]] >= 2

----------------------------------------------------------------------------
(* Claims about chunk_file *)

\* C19: for every record written by chunk_file, whatever the sidecar
\* metadata object: chunk_index is the 0-based position of the record,
\* char_start of the first record is 0, char_start of a later record is
\* char_end of the record before it, and char_end - char_start is the byte
\* length of the text; "Hello world." alone yields chunk_index 0,
\* char_start 0, char_end 12.
C19_OffsetsFollowCursor ==
    cpc = "written" =>
        /\ \A i \in 1..Len(records) :
             LET m == records[i].metadata
             IN /\ m.chunk_index = i - 1
                /\ m.char_start = IF i = 1 THEN 0 ELSE records[i - 1].metadata.char_end
                /\ m.char_end - m.char_start = ByteLen(records[i].text)
        /\ raw = HelloWorld =>
             /\ Len(records) = 1
             /\ records[1].text = HelloWorld
             /\ records[1].metadata.char_end = 12

\* C20: the input "# Preface\n\nReal content text." with strip_headers set
\* and the other chunk options as in the test configuration yields exactly
\* one chunk, with the text "Real content text.", for both values of
\* collapse_whitespace.
C20_HeaderStripped ==
    (raw = PrefaceText /\ cfg.strip_headers /\ cpc \in {"done", "written", "empty", "err"})
        => chunks = <<RealContent>>

----------------------------------------------------------------------------
(* Claims about split_paragraphs *)

\* The blocks of non-blank lines of the text, each line trimmed, the lines
\* of a block joined by line feeds.
RECURSIVE BlockScan(_, _, _)
BlockScan(ls, cur, out) ==
    IF ls = <<>> THEN (IF cur = <<>> THEN out ELSE Append(out, cur))
    ELSE IF Trim(Head(ls)) = <<>>
         THEN BlockScan(Tail(ls), <<>>, IF cur = <<>> THEN out ELSE Append(out, cur))
         ELSE BlockScan(Tail(ls),
                        IF cur = <<>> THEN Trim(Head(ls))
                        ELSE cur \o <<"\n">> \o Trim(Head(ls)),
                        out)

Blocks(s) == BlockScan(lines(s), <<>>, <<>>)

\* The blocks that are not discarded as headers, their line feeds replaced.
KeptBlocks(s, c) ==
    LET kept == SelectSeq(Blocks(s), LAMBDA b : ~(c.strip_headers /\ is_header(b)))
    IN [k \in 1..Len(kept) |-> replace_newlines(kept[k])]

\* The texts joined by single spaces.
RECURSIVE JoinSpaces(_)
JoinSpaces(seqs) ==
    IF seqs = <<>> THEN <<>>
    ELSE IF Len(seqs) = 1 THEN Head(seqs)
    ELSE Head(seqs) \o <<" ">> \o JoinSpaces(Tail(seqs))

\* C25: the paragraphs split_paragraphs returns are the non-header
\* paragraphs of the text in order, a paragraph shorter than
\* min_paragraph_chars joined to the one emitted before it by a single space
\* and emitted on its own only when it is the first: no text is lost, every
\* paragraph but the first has length >= min_paragraph_chars, and a
\* paragraph that is long enough always starts a new one.
C25_ShortParagraphsMerged ==
    cpc \in {"loop", "done", "written", "err"} =>
        LET kept == KeptBlocks(normalize_text(raw, cfg), cfg)
        IN /\ JoinSpaces(paragraphs) = JoinSpaces(kept)
           /\ \A i \in 2..Len(paragraphs) :
                ByteLen(paragraphs[i]) >= cfg.min_paragraph_chars
           /\ Len(paragraphs) =
                Cardinality({k \in 1..Len(kept) :
                                k = 1 \/ ByteLen(kept[k]) >= cfg.min_paragraph_chars})

C25_Witness ==
    /\ cpc = "loop"
    /\ cfg.min_paragraph_chars = 2
    /\ Len(KeptBlocks(normalize_text(raw, cfg), cfg)) = 2
    /\ paragraphs = << <<"a", " ", "a">> >>

HasLineBreak(s) == \E i \in 1..Len(s) : s[i] = "\n"

\* C32: with collapse_whitespace the normalized text contains no line
\* break, so split_paragraphs returns at most one paragraph for any input
\* (the whole text, trimmed, when it returns one): blank lines of the source
\* never separate paragraphs, and with strip_headers a file whose text
\* begins with '#' yields no chunks at all (nothing is written).
C32_CollapsedTextIsOneParagraph ==
    cfg.collapse_whitespace =>
        LET cleaned == normalize_text(raw, cfg)
        IN /\ ~HasLineBreak(cleaned)
           /\ Len(split_paragraphs(cleaned, cfg)) <= 1
           /\ paragraphs \in {<<>>, <<Trim(cleaned)>>}
           /\ (cfg.strip_headers /\ raw # <<>> /\ raw[1] = "#") =>
                 /\ paragraphs = <<>>
                 /\ chunks = <<>>
                 /\ records = <<>>
                 /\ cpc # "written"

\* chunk_file has returned without a chunk for a text that begins with '#'
\* and has, after a blank line, a block that is not a header.
C32_Witness ==
    /\ cfg.collapse_whitespace
    /\ cfg.strip_headers
    /\ raw # <<>> /\ raw[1] = "#"
    /\ Len(Blocks(raw)) >= 2
    /\ Len(KeptBlocks(raw, cfg)) >= 1
    /\ cpc = "empty"

----------------------------------------------------------------------------
(* Claims about the start and the end of insert::run *)

Returned == rpc \in {"ok", "err", "exit_ok", "exit_err"}

\* C22: with create_collection set, whatever the outcome of the creation
\* request (a success status, another status, or a transport failure), run
\* goes on to list the chunk files and to spawn the task of every one: it
\* has not returned with a chunk file left without a task.
C22_CreationFailureIgnored ==
    (icfg.create_collection /\ Returned) => spawned = Len(files)

\* C23: the commit request is sent only with commit_at_end set and at most
\* once; when it has been sent every file task has completed with all of its
\* records ingested, and no task or ingest request is outstanding; with
\* commit_at_end set and at least one chunk file, once run has joined every
\* task with success the commit has been sent exactly once.
C23_CommitOnceAtEnd ==
    /\ commits <= 1
    /\ rpc = "commit" => commits = 1
    /\ commits > 0 =>
         /\ icfg.commit_at_end
         /\ \A f \in FileIds :
              /\ ftask[f].st = "done"
              /\ ftask[f].quickwit # "sent"
              /\ SumLens(stored[f].quickwit) = Len(files[f])
    /\ (files # <<>> /\ joined = Len(files)) =>
         commits = IF icfg.commit_at_end THEN 1 ELSE 0

C23_Witness ==
    /\ rpc = "commit"
    /\ commits = 1
    /\ Len(files) = 2
    /\ total_chunks = 3

----------------------------------------------------------------------------
(* Claims about process_batch *)

C26_BatchesPartitionLines ==
    \A f \in FileIds :
        LET t == ftask[f]
            bs == icfg.batch_size
            n == Len(files[f])
        IN /\ t.batch # <<>> =>
                /\ t.pos = (t.batch_idx - 1) * bs + Len(t.batch)
                /\ t.batch = SubSeq(files[f], t.pos - Len(t.batch) + 1, t.pos)
                /\ \/ Len(t.batch) = bs
                   \/ t.pos = n /\ Len(t.batch) >= 1 /\ Len(t.batch) < bs
           /\ t.st = "done" => t.pos = n

C26_Witness ==
    /\ Len(files) = 1
    /\ jsonl[1] # write_jsonl(files[1])
    /\ icfg.batch_size = 2
    /\ ftask[1].batch_idx = 2
    /\ Len(ftask[1].batch) = 1
    /\ ftask[1].batch[1] = files[1][3]

\* C27: with max_input_chars > 0 every prompt of an embedding call in flight
\* has at most max_input_chars characters, and it is the record text itself
\* when the text has no more characters than that.
C27_PromptWithinCap ==
    \A f \in FileIds : \A j \in DOMAIN subs[f] :
        LET s == subs[f][j]
        IN (s.st = "http" /\ icfg.max_input_chars > 0) =>
             /\ Len(s.prompt) <= icfg.max_input_chars
             /\ Len(s.items[s.k].text) <= icfg.max_input_chars =>
                    s.prompt = s.items[s.k].text

C27_Witness ==
    \E f \in FileIds : \E j, k \in DOMAIN subs[f] :
        /\ icfg.max_input_chars = 1
        /\ subs[f][j].st = "http"
        /\ subs[f][k].st = "http"
        /\ subs[f][j].prompt = subs[f][j].items[1].text
        /\ Len(subs[f][k].items[1].text) = 2
        /\ Len(subs[f][k].prompt) = 1

\* C28: once the task of a file has completed or failed, no embedding call
\* made for that file is in flight and no vector obtained for it is still to
\* be inserted into the cache.
C28_NoEmbedAfterFileEnds ==
    \A f \in FileIds :
        ftask[f].st \in {"done", "failed"} =>
            \A j \in DOMAIN subs[f] : subs[f][j].st \notin {"http", "insert"}

\* C29: with the cache enabled and large enough for every text, a record
\* whose text was the text of a record of an earlier batch of the same file
\* (all of which were embedded, the file having gone on) is served from the
\* cache: it is not among the misses of its batch, whatever max_input_chars.
C29_RepeatServedFromCache ==
    (CacheEnabled /\ icfg.cache_max_entries >= Cardinality(Texts)) =>
        \A f \in FileIds : \A k \in DOMAIN ftask[f].misses :
            \A i \in 1..(ftask[f].pos - Len(ftask[f].batch)) :
                files[f][i].text # ftask[f].misses[k].text

\* C30: under fair scheduling, with every HTTP call returning, insert::run
\* returns in the end, for no file, one file and two files and for every value
\* of the limits, 0 included; and in the end every permit is back in its
\* semaphore for good, after success and after failure.
C30_RunReturns ==
    /\ <>Returned
    /\ <>[](/\ file_permits = Max(icfg.max_parallel_files, 1)
            /\ embed_permits = Max(IF icfg.global_max_concurrency > 0
                                   THEN icfg.global_max_concurrency
                                   ELSE icfg.max_concurrency, 1))

C30_Witness ==
    /\ rpc = "exit_err"
    /\ Len(files) = 2
    /\ icfg.max_parallel_files = 0
    /\ icfg.global_max_concurrency = 0
    /\ ftask[1].st = "done"
    /\ ftask[2].st = "failed"
    /\ file_permits = 1
    /\ embed_permits = 1

----------------------------------------------------------------------------
(* Claims about chunk::run *)

\* C21: when chunk::run has returned, every .txt file other than one whose
\* source could not be read or whose sidecar could not be parsed has been
\* chunked and written: the input error of one file leaves no other file
\* unprocessed.
C21_OtherFilesChunked ==
    walk.rc \in {"ok", "err"} =>
        \A i \in 1..Len(walk.entries) :
            walk.done[i].st \in {"chunked", "failed"}

====
